---- MODULE Spec2Model ----
(***************************************************************************)
(* Model of src/helper/transfer-webscraped-attributes.py: the normalizers, *)
(* the LLM fallback (llm_extract), the resolution policy (process_attr),   *)
(* the store write (upsert_attr) and the batch loop (transfer_attributes,  *)
(* main).                                                                  *)
(*                                                                         *)
(* Texts are TLA+ strings and are processed character by character the way *)
(* the Python code does (strip, lower, substring tests, regex searches).   *)
(* A nullable value is a tuple: <<>> is None / SQL NULL, <<v>> is v.       *)
(* A float is held in hundredths (50.25 is 5025); the sample texts carry   *)
(* at most two decimals.  Columns created_at, updated_at, effective_date   *)
(* and created_by are not modelled: nothing reads them.                    *)
(***************************************************************************)
EXTENDS Integers, Sequences, FiniteSets, TLC

None == <<>>
Some(v) == <<v>>
Val(o) == o[1]

(***************************************************************************)
(* Python str primitives                                                   *)
(***************************************************************************)
Chr(s, i) == SubSeq(s, i, i)

LowerAlpha == "abcdefghijklmnopqrstuvwxyz"
UpperAlpha == "ABCDEFGHIJKLMNOPQRSTUVWXYZ"
Digits == "0123456789"

IsSpace(c) == c \in {" ", "\t", "\n", "\r"}
IsDigit(c) == c \in {"0", "1", "2", "3", "4", "5", "6", "7", "8", "9"}

LowerChr(c) ==
    IF \E i \in 1..26 : c = Chr(UpperAlpha, i)
    THEN Chr(LowerAlpha, CHOOSE i \in 1..26 : c = Chr(UpperAlpha, i))
    ELSE c

UpperChr(c) ==
    IF \E i \in 1..26 : c = Chr(LowerAlpha, i)
    THEN Chr(UpperAlpha, CHOOSE i \in 1..26 : c = Chr(LowerAlpha, i))
    ELSE c

RECURSIVE Lower(_)
Lower(s) == IF s = "" THEN "" ELSE LowerChr(Head(s)) \o Lower(Tail(s))

RECURSIVE Upper(_)
Upper(s) == IF s = "" THEN "" ELSE UpperChr(Head(s)) \o Upper(Tail(s))

RECURSIVE LStrip(_)
LStrip(s) == IF s # "" /\ IsSpace(Head(s)) THEN LStrip(Tail(s)) ELSE s

RECURSIVE RStrip(_)
RStrip(s) ==
    IF s # "" /\ IsSpace(Chr(s, Len(s))) THEN RStrip(SubSeq(s, 1, Len(s) - 1)) ELSE s

Strip(s) == RStrip(LStrip(s))

\* k in s
Contains(s, k) == \E i \in 1..(Len(s) - Len(k) + 1) : SubSeq(s, i, i + Len(k) - 1) = k

StartsWith(s, k) == Len(s) >= Len(k) /\ SubSeq(s, 1, Len(k)) = k

\* position of the first character of s at or after i that satisfies no digit test: end of a \d* run
RECURSIVE DigitRunEnd(_, _)
DigitRunEnd(s, i) == IF i <= Len(s) /\ IsDigit(Chr(s, i)) THEN DigitRunEnd(s, i + 1) ELSE i

DigitVal(c) == (CHOOSE i \in 1..10 : Chr(Digits, i) = c) - 1

\* int() of a run of decimal digits
RECURSIVE ParseDigits(_)
ParseDigits(s) ==
    IF s = "" THEN 0
    ELSE ParseDigits(SubSeq(s, 1, Len(s) - 1)) * 10 + DigitVal(Chr(s, Len(s)))

\* str() of a non-negative int
RECURSIVE NatToStr(_)
NatToStr(n) ==
    IF n < 10 THEN Chr(Digits, n + 1) ELSE NatToStr(n \div 10) \o Chr(Digits, (n % 10) + 1)

\* str(int)
IntToStr(n) == IF n < 0 THEN "-" \o NatToStr(-n) ELSE NatToStr(n)

\* str(bool)
BoolToStr(b) == IF b THEN "True" ELSE "False"

\* str(float), the float held in hundredths: 5000 -> "50.0", 5025 -> "50.25", 5050 -> "50.5"
FloatToStr(h) ==
    NatToStr(h \div 100) \o "." \o
        (IF h % 10 = 0 THEN NatToStr((h % 100) \div 10)
         ELSE NatToStr((h % 100) \div 10) \o NatToStr(h % 10))

\* s.split(sep) for a one-character separator, as a sequence of pieces
RECURSIVE SplitAt(_, _, _)
SplitAt(s, seps, cur) ==
    IF s = "" THEN <<cur>>
    ELSE IF Head(s) \in seps THEN <<cur>> \o SplitAt(Tail(s), seps, "")
    ELSE SplitAt(Tail(s), seps, cur \o Head(s))

Split(s, seps) == SplitAt(s, seps, "")

\* sep.join(items)
RECURSIVE Join(_, _)
Join(items, sep) ==
    IF items = <<>> THEN ""
    ELSE IF Len(items) = 1 THEN items[1]
    ELSE items[1] \o sep \o Join(Tail(items), sep)

StripAll(items) == [i \in 1..Len(items) |-> Strip(items[i])]

InSeq(x, items) == \E i \in 1..Len(items) : items[i] = x

(***************************************************************************)
(* Raw column values of test.web_scraped_hotels: NULL, text, an integer or *)
(* a boolean.                                                              *)
(***************************************************************************)
RawNone == [t |-> "none"]
RawStr(s) == [t |-> "str", s |-> s]
RawInt(n) == [t |-> "int", n |-> n]
RawBool(b) == [t |-> "bool", b |-> b]

\* str(raw)
PyStr(raw) ==
    CASE raw.t = "str" -> raw.s
      [] raw.t = "int" -> IntToStr(raw.n)
      [] raw.t = "bool" -> BoolToStr(raw.b)
      [] OTHER -> "None"

\* Python truthiness of a raw value ("if raw", "not raw", "a or b")
Truthy(raw) ==
    CASE raw.t = "str" -> raw.s # ""
      [] raw.t = "int" -> raw.n # 0
      [] raw.t = "bool" -> raw.b
      [] OTHER -> FALSE

\* a faulty variant of IsBlank: only None counts as absent data
IsBlankOnlyNone(raw) == raw.t = "none"

\* process_attr's test for absent data: None or a blank string
IsBlank(raw) == raw.t = "none" \/ (raw.t = "str" /\ Strip(raw.s) = "")

(***************************************************************************)
(* Vocabularies                                                            *)
(***************************************************************************)
ALLOWED_SPECIES_TAGS ==
    <<"PET_TYPE_DOG", "PET_TYPE_CAT", "PET_TYPE_BIRD", "PET_TYPE_FISH",
      "PET_TYPE_SMALL", "PET_TYPE_ALL", "PET_TYPE_SERVICE", "PET_TYPE_DOMESTIC">>

BREED_TAGS ==
    <<"BREED_PIT_BULL", "BREED_ROTTWEILER", "BREED_GERMAN_SHEPHERD",
      "BREED_DOBERMAN", "BREED_HUSKY", "BREED_AKITA", "BREED_MASTIFF",
      "BREED_CHOW_CHOW", "BREED_GREAT_DANE", "BREED_WOLF", "BREED_BOXER",
      "BREED_AMERICAN_BULLDOG", "BREED_STAFFORDSHIRE_TERRIER",
      "BREED_ALASKAN_MALAMUTE", "BREED_CANE_CORSO", "BREED_AGGRESSIVE",
      "BREED_LARGE", "BREED_CONTACT",
      "BREED_DOGO_ARGENTINO", "BREED_PRESA_CANARIO", "BREED_BELGIAN_MALINOIS",
      "BREED_ST_BERNARD", "BREED_BULL_TERRIER">>

AMENITY_TAGS ==
    <<"AMENITY_PET_BEDS", "AMENITY_PET_BOWLS", "AMENITY_PET_TREATS",
      "AMENITY_RELIEF_AREA", "AMENITY_PET_MENU", "AMENITY_PET_TOYS",
      "AMENITY_KENNEL", "AMENITY_PET_SITTING", "AMENITY_DOG_WALKING",
      "AMENITY_WASTE_BAGS", "AMENITY_WELCOME_KIT", "AMENITY_FENCED_AREA",
      "AMENITY_DOG_WASH", "AMENITY_TRAILS">>

ALLOWED_INTERVALS == <<"per-night", "per-stay", "per-day", "per-week", "one-time">>

ALLOWED_CURRENCIES ==
    <<"usd", "eur", "gbp", "aud", "cad", "chf", "jpy", "cny", "inr", "mxn", "hkd">>

\* the attribute names ATTR_MAP is built with, and the four looked up at run time
StaticAttrs ==
    {"is_pet_friendly", "pet_fee_amount", "pet_fee_interval", "max_pets_allowed",
     "max_weight_lbs", "allowed_species", "breed_restrictions", "has_pet_deposit",
     "is_deposit_refundable", "pet_fee_currency", "pet_fee_variations",
     "pet_amenities_list", "has_pet_amenities", "general_pet_rules",
     "pet_deposit_amount"}

RuntimeAttrs ==
    {"service_animals_allowed", "emotional_support_animals_allowed",
     "minimum_pet_age", "service_animal_policy"}

\* ATTR_DATA_TYPES.get(attr_name, 'str')
ATTR_DATA_TYPES(attr_name) ==
    CASE attr_name \in {"is_pet_friendly", "has_pet_deposit", "is_deposit_refundable",
                        "has_pet_amenities", "service_animals_allowed",
                        "emotional_support_animals_allowed"} -> "bool"
      [] attr_name \in {"max_pets_allowed", "max_weight_lbs", "minimum_pet_age"} -> "int"
      [] attr_name \in {"pet_fee_amount", "pet_deposit_amount"} -> "float"
      [] attr_name \in {"allowed_species", "breed_restrictions", "pet_amenities_list",
                        "pet_fee_variations", "general_pet_rules"} -> "list[str]"
      [] OTHER -> "str"

(***************************************************************************)
(* Type normalizers                                                        *)
(***************************************************************************)
\* a faulty variant of normalize_bool: the text is not stripped
normalize_bool_unstripped(raw) ==
    IF raw.t = "none" THEN None
    ELSE IF raw.t = "bool" THEN Some(raw.b)
    ELSE LET s == Lower(PyStr(raw)) IN
         IF s \in {"true", "yes", "1", "t", "y"} THEN Some(TRUE)
         ELSE IF s \in {"false", "no", "0", "f", "n"} THEN Some(FALSE)
         ELSE None

\* normalize_bool: None, or Some(TRUE/FALSE)
normalize_bool(raw) ==
    IF raw.t = "none" THEN None
    ELSE IF raw.t = "bool" THEN Some(raw.b)
    ELSE LET s == Strip(Lower(PyStr(raw))) IN
         IF s \in {"true", "yes", "1", "t", "y"} THEN Some(TRUE)
         ELSE IF s \in {"false", "no", "0", "f", "n"} THEN Some(FALSE)
         ELSE None

\* re.search(r'\d+', s): <<>> or <<start, end>> (end exclusive) of the first digit run
FirstDigitRun(s) ==
    IF \E i \in 1..Len(s) : IsDigit(Chr(s, i))
    THEN LET i == CHOOSE i \in 1..Len(s) :
                      IsDigit(Chr(s, i)) /\ \A j \in 1..(i - 1) : ~IsDigit(Chr(s, j))
         IN <<i, DigitRunEnd(s, i)>>
    ELSE <<>>

\* normalize_int: None, or Some(n)
normalize_int(raw) ==
    IF raw.t = "none" THEN None
    ELSE IF raw.t = "int" THEN Some(raw.n)
    ELSE IF raw.t = "bool" THEN Some(IF raw.b THEN 1 ELSE 0)
    ELSE LET s == Strip(PyStr(raw))
             m == FirstDigitRun(s)
         IN IF m = <<>> THEN None ELSE Some(ParseDigits(SubSeq(s, m[1], m[2] - 1)))

\* float(re.search(r'[\d]+\.?[\d]*', s).group()) in hundredths; None when nothing matches
SearchFloat(s) ==
    LET m == FirstDigitRun(s) IN
    IF m = <<>> THEN None
    ELSE LET whole == ParseDigits(SubSeq(s, m[1], m[2] - 1))
             dot == m[2] <= Len(s) /\ Chr(s, m[2]) = "."
             fe == IF dot THEN DigitRunEnd(s, m[2] + 1) ELSE m[2]
             frac == IF dot THEN SubSeq(s, m[2] + 1, fe - 1) ELSE ""
             f2 == SubSeq(frac \o "00", 1, 2)
         IN Some(whole * 100 + ParseDigits(f2))

\* normalize_float: None, or Some(hundredths)
normalize_float(raw) ==
    IF raw.t = "none" THEN None
    ELSE IF raw.t = "int" THEN Some(raw.n * 100)
    ELSE IF raw.t = "bool" THEN Some(IF raw.b THEN 100 ELSE 0)
    ELSE SearchFloat(Strip(PyStr(raw)))

(***************************************************************************)
(* Tag normalizers                                                         *)
(***************************************************************************)
\* the tags whose condition holds, in the order the code appends them
PickTags(pairs) ==
    [i \in 1..Len(SelectSeq(pairs, LAMBDA p : p[1])) |-> SelectSeq(pairs, LAMBDA p : p[1])[i][2]]

\* a list, or None when it is empty ("tags if tags else None")
NonEmptyOrNone(tags) == IF tags = <<>> THEN None ELSE Some(tags)

\* the tag tests of normalize_species on s = str(raw).lower()
SpeciesTags(s) ==
    PickTags(<<
        <<Contains(s, "dog") \/ Contains(s, "canine"), "PET_TYPE_DOG">>,
        <<Contains(s, "cat"), "PET_TYPE_CAT">>,
        <<Contains(s, "bird"), "PET_TYPE_BIRD">>,
        <<Contains(s, "fish"), "PET_TYPE_FISH">>,
        <<Contains(s, "rabbit") \/ Contains(s, "hamster") \/ Contains(s, "guinea")
              \/ Contains(s, "small pet") \/ Contains(s, "small animal"), "PET_TYPE_SMALL">>,
        <<(Contains(s, "all") /\ (Contains(s, "pet") \/ Contains(s, "animal")))
              \/ Contains(s, "all types"), "PET_TYPE_ALL">>,
        <<Contains(s, "service") \/ Contains(s, "guide dog") \/ Contains(s, "assistance"),
          "PET_TYPE_SERVICE">>,
        <<Contains(s, "domestic"), "PET_TYPE_DOMESTIC">> >>)

normalize_species(raw) ==
    IF ~Truthy(raw) THEN None ELSE NonEmptyOrNone(SpeciesTags(Lower(PyStr(raw))))

\* the texts normalize_breeds skips
NoBreedTexts ==
    {"n/a", "none", "no", "no breed restriction", "no breed restrictions",
     "no aggressive breeds"}

\* the tag tests of normalize_breeds on s = str(raw).lower()
BreedTags(s) ==
    PickTags(<<
        <<Contains(s, "pit") \/ Contains(s, "pitbull"), "BREED_PIT_BULL">>,
        <<Contains(s, "rottweiler"), "BREED_ROTTWEILER">>,
        <<Contains(s, "german shepherd") \/ Contains(s, "german-shepherd"),
          "BREED_GERMAN_SHEPHERD">>,
        <<Contains(s, "doberman"), "BREED_DOBERMAN">>,
        <<Contains(s, "husky") \/ Contains(s, "siberian"), "BREED_HUSKY">>,
        <<Contains(s, "akita"), "BREED_AKITA">>,
        <<Contains(s, "mastiff"), "BREED_MASTIFF">>,
        <<Contains(s, "wolf"), "BREED_WOLF">>,
        <<Contains(s, "chow"), "BREED_CHOW_CHOW">>,
        <<Contains(s, "great dane"), "BREED_GREAT_DANE">>,
        <<Contains(s, "boxer"), "BREED_BOXER">>,
        <<Contains(s, "bulldog") /\ Contains(s, "american"), "BREED_AMERICAN_BULLDOG">>,
        <<Contains(s, "staffordshire"), "BREED_STAFFORDSHIRE_TERRIER">>,
        <<Contains(s, "malamute"), "BREED_ALASKAN_MALAMUTE">>,
        <<Contains(s, "cane corso"), "BREED_CANE_CORSO">>,
        <<Contains(s, "aggressive"), "BREED_AGGRESSIVE">>,
        <<Contains(s, "large breed"), "BREED_LARGE">>,
        <<Contains(s, "contact"), "BREED_CONTACT">>,
        <<Contains(s, "dogo") \/ Contains(s, "argentino"), "BREED_DOGO_ARGENTINO">>,
        <<Contains(s, "presa") \/ Contains(s, "canario"), "BREED_PRESA_CANARIO">>,
        <<Contains(s, "belgian") \/ Contains(s, "malinois"), "BREED_BELGIAN_MALINOIS">>,
        <<Contains(s, "st. bernard") \/ Contains(s, "saint bernard")
              \/ Contains(s, "st bernard"), "BREED_ST_BERNARD">>,
        <<Contains(s, "bull terrier") /\ ~Contains(s, "staffordshire"),
          "BREED_BULL_TERRIER">> >>)

\* normalize_breeds after "if not raw", on s = str(raw).lower()
BreedsOf(s) == IF Strip(s) \in NoBreedTexts THEN None ELSE NonEmptyOrNone(BreedTags(s))

normalize_breeds(raw) == IF ~Truthy(raw) THEN None ELSE BreedsOf(Lower(PyStr(raw)))

\* the tag tests of normalize_amenities on s = str(raw).lower()
AmenityTags(s) ==
    PickTags(<<
        <<Contains(s, "bed"), "AMENITY_PET_BEDS">>,
        <<Contains(s, "bowl") \/ Contains(s, "dish"), "AMENITY_PET_BOWLS">>,
        <<Contains(s, "treat") \/ Contains(s, "biscuit"), "AMENITY_PET_TREATS">>,
        <<Contains(s, "relief") \/ Contains(s, "dog run") \/ Contains(s, "potty")
              \/ Contains(s, "dog park") \/ Contains(s, "waste station"),
          "AMENITY_RELIEF_AREA">>,
        <<Contains(s, "menu") \/ Contains(s, "dining") \/ Contains(s, "pet food")
              \/ Contains(s, "dog food"), "AMENITY_PET_MENU">>,
        <<Contains(s, "toy"), "AMENITY_PET_TOYS">>,
        <<Contains(s, "kennel") \/ Contains(s, "crate"), "AMENITY_KENNEL">>,
        <<Contains(s, "sitting") \/ Contains(s, "daycare"), "AMENITY_PET_SITTING">>,
        <<Contains(s, "walking") \/ Contains(s, "dog_walking"), "AMENITY_DOG_WALKING">>,
        <<Contains(s, "waste") \/ Contains(s, "poop") \/ Contains(s, "bag"),
          "AMENITY_WASTE_BAGS">>,
        <<Contains(s, "welcome") /\ Contains(s, "kit"), "AMENITY_WELCOME_KIT">>,
        <<Contains(s, "fenc") \/ Contains(s, "backyard")
              \/ (Contains(s, "private") /\ Contains(s, "yard")), "AMENITY_FENCED_AREA">>,
        <<Contains(s, "wash") \/ Contains(s, "groom") \/ Contains(s, "bath"),
          "AMENITY_DOG_WASH">>,
        <<Contains(s, "trail") \/ Contains(s, "hik"), "AMENITY_TRAILS">> >>)

normalize_amenities(raw) ==
    IF ~Truthy(raw) THEN None ELSE NonEmptyOrNone(AmenityTags(Lower(PyStr(raw))))

\* the keyword tests of normalize_interval on s = str(raw).lower().strip()
IntervalOf(s) ==
    IF Contains(s, "stay") THEN Some("per-stay")
    ELSE IF Contains(s, "night") THEN Some("per-night")
    ELSE IF Contains(s, "day") THEN Some("per-day")
    ELSE IF Contains(s, "week") THEN Some("per-week")
    ELSE IF Contains(s, "one") /\ Contains(s, "time") THEN Some("one-time")
    ELSE None

normalize_interval(raw) == IF ~Truthy(raw) THEN None ELSE IntervalOf(Strip(Lower(PyStr(raw))))

\* the mapping of normalize_currency, in the dict's insertion order
CurrencyMapping ==
    << <<"$", "usd">>, <<"usd", "usd">>, <<"dollar", "usd">>, <<"us", "usd">>,
       <<"eur", "eur">>, <<"euro", "eur">>, <<"gbp", "gbp">>, <<"pound", "gbp">>,
       <<"aud", "aud">>, <<"cad", "cad">>, <<"chf", "chf">>, <<"jpy", "jpy">>,
       <<"cny", "cny">>, <<"inr", "inr">>, <<"mxn", "mxn">>, <<"hkd", "hkd">> >>

\* the code of the first mapping key found in s = str(raw).lower().strip()
FirstHit(hits) == IF hits = <<>> THEN None ELSE Some(hits[1][2])

CurrencyOf(s) == FirstHit(SelectSeq(CurrencyMapping, LAMBDA p : Contains(s, p[1])))

normalize_currency(raw) == IF ~Truthy(raw) THEN None ELSE CurrencyOf(Strip(Lower(PyStr(raw))))

\* list_to_pg_arr
list_to_pg_arr(tags) == "{" \o Join(tags, ",") \o "}"

(***************************************************************************)
(* Free-text lists.  The texts of the model are ASCII, so the bullet       *)
(* separator of policy_to_pg_arr never occurs; a JSON text is an object    *)
(* with one member whose value is a string without escapes, any other text *)
(* that starts with a brace fails json.loads.                              *)
(***************************************************************************)
\* the positions of the double quotes of s, in ascending order
RECURSIVE QuotesFrom(_, _)
QuotesFrom(s, i) ==
    IF i > Len(s) THEN <<>>
    ELSE (IF Chr(s, i) = "\"" THEN <<i>> ELSE <<>>) \o QuotesFrom(s, i + 1)

\* s = {"key": "value"} with its quotes at q: <<key, value>>, else <<>>
JsonObject(s, q) ==
    IF /\ Len(q) = 4
       /\ Strip(SubSeq(s, 1, q[1] - 1)) = "{"
       /\ Strip(SubSeq(s, q[2] + 1, q[3] - 1)) = ":"
       /\ Strip(SubSeq(s, q[4] + 1, Len(s))) = "}"
       /\ ~Contains(s, "\\")
    THEN <<SubSeq(s, q[1] + 1, q[2] - 1), SubSeq(s, q[3] + 1, q[4] - 1)>>
    ELSE <<>>

\* json.loads(s): <<key, value>>, or <<>> when it raises
JsonLoads(s) == JsonObject(s, QuotesFrom(s, 1))

\* extract_json_field after "if not raw", on s = str(raw).strip() and parsed = json.loads(s)
JsonField(s, parsed, field) ==
    IF StartsWith(s, "{") /\ parsed # <<>> /\ parsed[1] = field THEN Some(parsed[2]) ELSE Some(s)

\* extract_json_field: None, or Some(text)
extract_json_field(raw, field) ==
    IF ~Truthy(raw) THEN None
    ELSE JsonField(Strip(PyStr(raw)), JsonLoads(Strip(PyStr(raw))), field)

\* item.replace('"', '\\"')
RECURSIVE EscapeQuotes(_)
EscapeQuotes(s) ==
    IF s = "" THEN ""
    ELSE (IF Head(s) = "\"" THEN "\\\"" ELSE Head(s)) \o EscapeQuotes(Tail(s))

\* the quoting loop shared by text_to_pg_arr and policy_to_pg_arr
PgQuote(item) ==
    IF Contains(item, ",") \/ Contains(item, "\"")
    THEN "\"" \o EscapeQuotes(item) \o "\""
    ELSE item

\* the array literal of the items, None when there is none
PgArrOf(items) ==
    IF items = <<>> THEN None
    ELSE Some("{" \o Join([i \in 1..Len(items) |-> PgQuote(items[i])], ",") \o "}")

\* text_to_pg_arr from the extracted text on
TextItems(text) ==
    IF text = None \/ text = Some("") THEN None
    ELSE PgArrOf(SelectSeq(StripAll(Split(Val(text), {"|", "\n", ";"})), LAMBDA it : it # ""))

\* text_to_pg_arr: None, or Some(array literal)
text_to_pg_arr(raw) ==
    IF ~Truthy(raw) THEN None ELSE TextItems(extract_json_field(raw, "raw"))

\* re.split(r'\.\s|\n|;', text)
RECURSIVE SplitPolicy(_, _)
SplitPolicy(s, cur) ==
    IF s = "" THEN <<cur>>
    ELSE IF Head(s) = "." /\ Len(s) >= 2 /\ IsSpace(Chr(s, 2))
         THEN <<cur>> \o SplitPolicy(SubSeq(s, 3, Len(s)), "")
    ELSE IF Head(s) \in {"\n", ";"} THEN <<cur>> \o SplitPolicy(Tail(s), "")
    ELSE SplitPolicy(Tail(s), cur \o Head(s))

\* policy_to_pg_arr from the extracted text on
PolicyItems(text) ==
    IF text = None \/ text = Some("") THEN None
    ELSE PgArrOf(SelectSeq(StripAll(SplitPolicy(Val(text), "")),
                           LAMBDA it : it # "" /\ Len(it) > 5))

\* policy_to_pg_arr: None, or Some(array literal)
policy_to_pg_arr(raw) ==
    IF ~Truthy(raw) THEN None ELSE PolicyItems(extract_json_field(raw, "policy"))

(***************************************************************************)
(* LLM fallback.  An answer of the model, [fails, text], says how many     *)
(* attempts of generate_content raise before one returns, and the text     *)
(* that one returns.                                                       *)
(***************************************************************************)
MaxAttempts == 3

\* the seconds call_gemini sleeps after `failed` failed attempts: 2 ** attempt after each
\* but the last of MaxAttempts
RECURSIVE Backoff(_)
Backoff(failed) ==
    IF failed = 0 THEN 0
    ELSE Backoff(failed - 1) + (IF failed - 1 < MaxAttempts - 1 THEN 2 ^ (failed - 1) ELSE 0)

\* call_gemini: the stripped reply of the first attempt that does not raise, None after
\* MaxAttempts failures; attempts made, and seconds slept between failed attempts
call_gemini(ans) ==
    IF ans.fails < MaxAttempts
    THEN [text |-> Some(Strip(ans.text)), attempts |-> ans.fails + 1, slept |-> Backoff(ans.fails)]
    ELSE [text |-> None, attempts |-> MaxAttempts, slept |-> Backoff(MaxAttempts)]


\* the values llm_extract returns beside is_invalid
LlmNone == [k |-> "none"]
LlmNull == [k |-> "NULL"]
LlmBool(b) == [k |-> "bool", v |-> b]
LlmInt(n) == [k |-> "int", v |-> n]
LlmFloat(h) == [k |-> "float", v |-> h]
LlmStr(s) == [k |-> "str", v |-> s]
LlmList(tags) == [k |-> "list", v |-> tags]

\* (val, is_invalid) of llm_extract, and whether call_gemini was called for it
LlmResult(val, invalid, called) == [val |-> val, invalid |-> invalid, called |-> called]

LlmBad == LlmResult(LlmNone, TRUE, TRUE)

\* re.search(r'-?\d+', r) from position i on: the first match, as Some(int), or None
RECURSIVE SearchSignedInt(_, _)
SearchSignedInt(r, i) ==
    IF i > Len(r) THEN None
    ELSE IF IsDigit(Chr(r, i))
         THEN Some(ParseDigits(SubSeq(r, i, DigitRunEnd(r, i) - 1)))
    ELSE IF Chr(r, i) = "-" /\ i < Len(r) /\ IsDigit(Chr(r, i + 1))
         THEN Some(0 - ParseDigits(SubSeq(r, i + 1, DigitRunEnd(r, i + 1) - 1)))
    ELSE SearchSignedInt(r, i + 1)

\* a faulty variant of ReplyBool: a reply that is not "false" counts as True
ReplyBoolGuessed(r) ==
    IF r = "false" THEN LlmResult(LlmBool(FALSE), FALSE, TRUE)
    ELSE LlmResult(LlmBool(TRUE), FALSE, TRUE)

\* the bool branch on r = result.strip().lower()
ReplyBool(r) ==
    IF r = "true" THEN LlmResult(LlmBool(TRUE), FALSE, TRUE)
    ELSE IF r = "false" THEN LlmResult(LlmBool(FALSE), FALSE, TRUE)
    ELSE LlmBad

\* int(re.search(...).group()) on the match m
MatchedInt(m) == IF m = None THEN LlmBad ELSE LlmResult(LlmInt(Val(m)), FALSE, TRUE)

\* the int branch on r = result.strip().upper()
ReplyInt(r) ==
    IF r = "NULL" THEN LlmResult(LlmNull, FALSE, TRUE)
    ELSE IF r = "INVALID" THEN LlmBad
    ELSE MatchedInt(SearchSignedInt(r, 1))

\* float(re.search(...).group()) on the match m
MatchedFloat(m) == IF m = None THEN LlmBad ELSE LlmResult(LlmFloat(Val(m)), FALSE, TRUE)

\* the float branch on r = result.strip().upper()
ReplyFloat(r) == IF r = "INVALID" THEN LlmBad ELSE MatchedFloat(SearchFloat(r))

\* the pet_fee_currency branch on r = result.strip().lower()
ReplyCurrency(r) ==
    IF r = "invalid" \/ Len(r) # 3 THEN LlmBad ELSE LlmResult(LlmStr(r), FALSE, TRUE)

\* the pet_fee_interval branch on r = result.strip().lower()
ReplyInterval(r) ==
    IF InSeq(r, ALLOWED_INTERVALS) THEN LlmResult(LlmStr(r), FALSE, TRUE) ELSE LlmBad

\* valid = [t for t in extracted if t in allowed_tags]
ValidTags(valid) == IF valid = <<>> THEN LlmBad ELSE LlmResult(LlmList(valid), FALSE, TRUE)

\* a faulty variant of ReplyTags: the extracted tags are not checked against allowed_tags
ReplyTagsUnfiltered(r, allowed_tags) ==
    IF r = "INVALID" THEN LlmBad
    ELSE ValidTags(SelectSeq(StripAll(Split(r, {","})), LAMBDA t : t # ""))

\* the list[str] branch on r = result.strip().upper()
ReplyTags(r, allowed_tags) ==
    IF r = "INVALID" THEN LlmBad
    ELSE ValidTags(SelectSeq(StripAll(Split(r, {","})), LAMBDA t : InSeq(t, allowed_tags)))

\* llm_extract after call_gemini returned result
ParseReply(attr_name, data_type, result, allowed_tags) ==
    IF result = None \/ result = Some("") THEN LlmBad
    ELSE IF data_type = "bool" THEN ReplyBool(Lower(Strip(Val(result))))
    ELSE IF data_type = "int" THEN ReplyInt(Upper(Strip(Val(result))))
    ELSE IF data_type = "float" THEN ReplyFloat(Upper(Strip(Val(result))))
    ELSE IF attr_name = "pet_fee_currency" THEN ReplyCurrency(Lower(Strip(Val(result))))
    ELSE IF attr_name = "pet_fee_interval" THEN ReplyInterval(Lower(Strip(Val(result))))
    ELSE ReplyTags(Upper(Strip(Val(result))), allowed_tags)

\* a faulty variant of HasBranch: a list without allowed tags is sent to the LLM as well
HasBranchForAnyList(attr_name, data_type, allowed_tags) ==
    \/ data_type \in {"bool", "int", "float", "list[str]"}
    \/ data_type = "str" /\ attr_name \in {"pet_fee_currency", "pet_fee_interval"}

\* whether llm_extract has a branch, and so a call of call_gemini, for the attribute
HasBranch(attr_name, data_type, allowed_tags) ==
    \/ data_type \in {"bool", "int", "float"}
    \/ data_type = "str" /\ attr_name \in {"pet_fee_currency", "pet_fee_interval"}
    \/ data_type = "list[str]" /\ allowed_tags # <<>>

\* llm_extract: ans is the answer the model would give to the prompt
llm_extract(attr_name, data_type, ans, allowed_tags) ==
    IF HasBranch(attr_name, data_type, allowed_tags)
    THEN ParseReply(attr_name, data_type, call_gemini(ans).text, allowed_tags)
    ELSE LlmResult(LlmNone, TRUE, FALSE)

(***************************************************************************)
(***************************************************************************)
(* The attribute store: ingestion.hotel_attributes as a set of rows.       *)
(* The attribute_type_id of a name is written as the name itself (ATTR_MAP *)
(* gives distinct names distinct UUIDs); attr_map is the set of names that *)
(* have an entry in ATTR_MAP.                                              *)
(***************************************************************************)
ConfValid == 85
ConfInvalid == 0

\* the keyword arguments of upsert_attr, with their defaults
DefaultArgs ==
    [value |-> None, value_bool |-> None, value_int |-> None, value_num |-> None,
     value_arr |-> None, is_null |-> FALSE, is_invalid |-> FALSE]

\* uuid.uuid4(): an identity no row has
NewId(st) ==
    LET used == { r.id : r \in st } IN
    CHOOSE i \in 1..(Cardinality(st) + 1) : i \notin used /\ \A j \in 1..(i - 1) : j \in used

\* the text written to the value column
DbValue(data_type, a) ==
    IF data_type = "bool" /\ a.value_bool # None THEN Some(BoolToStr(Val(a.value_bool)))
    ELSE IF data_type = "int" /\ a.value_int # None THEN Some(IntToStr(Val(a.value_int)))
    ELSE IF data_type = "float" /\ a.value_num # None THEN Some(FloatToStr(Val(a.value_num)))
    ELSE IF data_type = "list[str]" THEN None
    ELSE a.value

\* a faulty variant of UpdateMatches: the UPDATE matches no row
NoRowMatches(r, hotel_id, attr_type_id) == FALSE

\* a faulty variant of UpdateMatches: the UPDATE is not scoped to enabled rows
MatchesDisabledToo(r, hotel_id, attr_type_id) ==
    /\ r.hotel_id = hotel_id
    /\ r.attribute_type_id = attr_type_id
    /\ r.generated_by = "web-scraper"

\* a faulty variant of UpdateMatches: the UPDATE is not scoped to the importer's rows
MatchesAnySource(r, hotel_id, attr_type_id) ==
    /\ r.hotel_id = hotel_id
    /\ r.attribute_type_id = attr_type_id
    /\ r.enabled

\* the WHERE clause of the UPDATE
UpdateMatches(r, hotel_id, attr_type_id) ==
    /\ r.hotel_id = hotel_id
    /\ r.attribute_type_id = attr_type_id
    /\ r.generated_by = "web-scraper"
    /\ r.enabled

\* a faulty variant of UpdatedRow: the UPDATE leaves confidence and enabled as they were
UpdatedRowKeepsConfidence(r, data_type, a) ==
    [r EXCEPT !.value = DbValue(data_type, a),
              !.value_bool = a.value_bool,
              !.value_int = a.value_int,
              !.value_num = a.value_num,
              !.value_arr = a.value_arr,
              !.is_null = a.is_null,
              !.is_invalid = a.is_invalid]

\* a faulty variant of UpdatedRow: a column the call supplies nothing for keeps its content
UpdatedRowKeepsUnsupplied(r, data_type, a) ==
    [r EXCEPT !.value = DbValue(data_type, a),
              !.value_bool = IF a.value_bool # None THEN a.value_bool ELSE @,
              !.value_int = IF a.value_int # None THEN a.value_int ELSE @,
              !.value_num = IF a.value_num # None THEN a.value_num ELSE @,
              !.value_arr = IF a.value_arr # None THEN a.value_arr ELSE @,
              !.confidence = IF ~a.is_invalid THEN ConfValid ELSE ConfInvalid,
              !.enabled = ~a.is_invalid,
              !.is_null = a.is_null,
              !.is_invalid = a.is_invalid]

\* the SET clause of the UPDATE
UpdatedRow(r, data_type, a) ==
    [r EXCEPT !.value = DbValue(data_type, a),
              !.value_bool = a.value_bool,
              !.value_int = a.value_int,
              !.value_num = a.value_num,
              !.value_arr = a.value_arr,
              !.confidence = IF ~a.is_invalid THEN ConfValid ELSE ConfInvalid,
              !.enabled = ~a.is_invalid,
              !.is_null = a.is_null,
              !.is_invalid = a.is_invalid]

\* the VALUES of the INSERT
InsertedRow(id, hotel_id, attr_type_id, data_type, a) ==
    [id |-> id, hotel_id |-> hotel_id, attribute_type_id |-> attr_type_id,
     value |-> DbValue(data_type, a),
     value_bool |-> a.value_bool, value_int |-> a.value_int,
     value_num |-> a.value_num, value_arr |-> a.value_arr,
     confidence |-> IF ~a.is_invalid THEN ConfValid ELSE ConfInvalid,
     generated_by |-> "web-scraper",
     enabled |-> ~a.is_invalid,
     is_null |-> a.is_null, is_invalid |-> a.is_invalid]

\* a faulty variant of upsert_attr: no lookup of the attribute's identity
upsert_attr_unchecked(st, attrs, hotel_id, attr_name, a) ==
    LET data_type == ATTR_DATA_TYPES(attr_name)
        hit == { r \in st : UpdateMatches(r, hotel_id, attr_name) }
    IN IF hit # {}
       THEN [store |-> (st \ hit) \cup { UpdatedRow(r, data_type, a) : r \in hit },
             result |-> "updated"]
       ELSE [store |-> st \cup { InsertedRow(NewId(st), hotel_id, attr_name, data_type, a) },
             result |-> "inserted"]

\* upsert_attr on store st: the store afterwards and 'updated', 'inserted' or 'skipped'
upsert_attr(st, attrs, hotel_id, attr_name, a) ==
    IF attr_name \notin attrs THEN [store |-> st, result |-> "skipped"]
    ELSE LET data_type == ATTR_DATA_TYPES(attr_name)
             hit == { r \in st : UpdateMatches(r, hotel_id, attr_name) }
         IN IF hit # {}
            THEN [store |-> (st \ hit) \cup { UpdatedRow(r, data_type, a) : r \in hit },
                  result |-> "updated"]
            ELSE [store |-> st \cup { InsertedRow(NewId(st), hotel_id, attr_name, data_type, a) },
                  result |-> "inserted"]

(***************************************************************************)
(* Resolution policy.  A context c is [store, stats, log]: the rows, the   *)
(* counters of the batch, and one event per attribute handled for the      *)
(* hotel at hand.  A decision is what process_attr resolves before it      *)
(* writes: the path it took, the keyword arguments of its upsert_attr call *)
(* (None when it makes none), and what llm_extract did.                    *)
(***************************************************************************)
NoAnswer == [fails |-> 0, text |-> ""]

\* llm_extract was not invoked
NoLlm == [val |-> LlmNone, invalid |-> FALSE, called |-> FALSE]

Decision(path, norm, call, invoked, x, ans) ==
    [path |-> path, norm |-> norm, call |-> call, invoked |-> invoked, contacted |-> x.called,
     llm_val |-> x.val, llm_invalid |-> x.invalid,
     ans |-> IF x.called THEN ans ELSE NoAnswer]

\* a faulty variant of TypedArgs: the text column is supplied beside the typed one
TypedArgsWithText(data_type, v) ==
    IF data_type = "bool" THEN [DefaultArgs EXCEPT !.value_bool = Some(v), !.value = Some("set")]
    ELSE IF data_type = "int" THEN [DefaultArgs EXCEPT !.value_int = Some(v), !.value = Some("set")]
    ELSE IF data_type = "float" THEN [DefaultArgs EXCEPT !.value_num = Some(v), !.value = Some("set")]
    ELSE IF data_type = "str" THEN [DefaultArgs EXCEPT !.value = Some(v)]
    ELSE [DefaultArgs EXCEPT !.value_arr = Some(v), !.value = Some("set")]

\* the typed column an extracted value v of the data type goes to
TypedArgs(data_type, v) ==
    IF data_type = "bool" THEN [DefaultArgs EXCEPT !.value_bool = Some(v)]
    ELSE IF data_type = "int" THEN [DefaultArgs EXCEPT !.value_int = Some(v)]
    ELSE IF data_type = "float" THEN [DefaultArgs EXCEPT !.value_num = Some(v)]
    ELSE IF data_type = "str" THEN [DefaultArgs EXCEPT !.value = Some(v)]
    ELSE [DefaultArgs EXCEPT !.value_arr = Some(v)]

DataTypes == {"bool", "int", "float", "str", "list[str]"}

\* the call that persists a value, pattern shared by the normalizer and the LLM branch
TypedCall(data_type, v) == IF data_type \in DataTypes THEN Some(TypedArgs(data_type, v)) ELSE None

\* the value handed to upsert_attr for an LLM value: a tag list becomes an array literal
LlmPayload(val) == IF val.k = "list" THEN list_to_pg_arr(val.v) ELSE val.v

\* a faulty variant of AfterLlm: NULL for an int is written as the value 0
AfterLlmNullAsZero(data_type, x, ans) ==
    IF x.invalid \/ x.val = LlmNone
    THEN Decision("llm-invalid", None, Some([DefaultArgs EXCEPT !.is_invalid = TRUE]), TRUE, x, ans)
    ELSE IF data_type = "int" /\ x.val = LlmNull
    THEN Decision("llm-null", None, Some([DefaultArgs EXCEPT !.value_int = Some(0)]), TRUE, x, ans)
    ELSE Decision("llm-value", None, TypedCall(data_type, LlmPayload(x.val)), TRUE, x, ans)

\* process_attr after llm_extract returned x
AfterLlm(data_type, x, ans) ==
    IF x.invalid \/ x.val = LlmNone
    THEN Decision("llm-invalid", None, Some([DefaultArgs EXCEPT !.is_invalid = TRUE]), TRUE, x, ans)
    ELSE IF data_type = "int" /\ x.val = LlmNull
    THEN Decision("llm-null", None, Some([DefaultArgs EXCEPT !.is_null = TRUE]), TRUE, x, ans)
    ELSE Decision("llm-value", None, TypedCall(data_type, LlmPayload(x.val)), TRUE, x, ans)

\* a faulty variant of Decide: no check for absent or blank raw data
DecideWithoutDataCheck(attr_name, raw_value, normalizer_result, data_type, ans, allowed_tags) ==
    IF normalizer_result # None
    THEN Decision("normalizer", normalizer_result,
                  TypedCall(data_type, Val(normalizer_result)), FALSE, NoLlm, ans)
    ELSE AfterLlm(data_type, llm_extract(attr_name, data_type, ans, allowed_tags), ans)

\* process_attr up to its upsert_attr call
Decide(attr_name, raw_value, normalizer_result, data_type, ans, allowed_tags) ==
    IF normalizer_result # None
    THEN Decision("normalizer", normalizer_result,
                  TypedCall(data_type, Val(normalizer_result)), FALSE, NoLlm, ans)
    ELSE IF IsBlank(raw_value) THEN Decision("no-data", None, None, FALSE, NoLlm, ans)
    ELSE AfterLlm(data_type, llm_extract(attr_name, data_type, ans, allowed_tags), ans)

\* the counters after a call that returned result
Counted(stats, d, result) ==
    [stats EXCEPT
       !.llm_calls = @ + (IF d.invoked THEN 1 ELSE 0),
       !.updated = @ + (IF d.call # None /\ ~Val(d.call).is_invalid /\ result = "updated"
                        THEN 1 ELSE 0),
       !.inserted = @ + (IF d.call # None /\ ~Val(d.call).is_invalid /\ result = "inserted"
                         THEN 1 ELSE 0),
       !.invalid = @ + (IF d.call # None /\ Val(d.call).is_invalid
                           /\ result \in {"updated", "inserted"}
                        THEN 1 ELSE 0)]

\* what stays of one attribute handled for a hotel
Event(hotel_id, attr_name, raw_value, d, result) ==
    [hotel_id |-> hotel_id, attr |-> attr_name, raw |-> raw_value, norm |-> d.norm,
     path |-> d.path,
     call |-> d.call, invoked |-> d.invoked, contacted |-> d.contacted, ans |-> d.ans,
     llm_val |-> d.llm_val, llm_invalid |-> d.llm_invalid, result |-> result]

\* the context after upsert_attr returned u for decision d
Recorded(c, hotel_id, attr_name, raw_value, d, u) ==
    [store |-> u.store,
     stats |-> Counted(c.stats, d, u.result),
     log |-> Append(c.log, Event(hotel_id, attr_name, raw_value, d, u.result))]

\* the upsert_attr call of a decision and the counting that follows it
Persist(c, attrs, hotel_id, attr_name, raw_value, d) ==
    Recorded(c, hotel_id, attr_name, raw_value, d,
             IF d.call = None THEN [store |-> c.store, result |-> "none"]
             ELSE upsert_attr(c.store, attrs, hotel_id, attr_name, Val(d.call)))

\* process_attr
process_attr(c, attrs, hotel_id, attr_name, raw_value, normalizer_result, data_type, ans, allowed_tags) ==
    Persist(c, attrs, hotel_id, attr_name, raw_value,
            Decide(attr_name, raw_value, normalizer_result, data_type, ans, allowed_tags))

(***************************************************************************)
(* The blocks of the transfer loop.  Each block of the loop body resolves  *)
(* to a plan: a process_attr call with its arguments, an upsert_attr call  *)
(* of its own with its keyword arguments, or nothing.  Floats are in       *)
(* hundredths.                                                             *)
(***************************************************************************)
FeeCap == 1000
PetCountMax == 10

NoPlan == [kind |-> "none"]

\* process_attr(cur, client, hotel_id, attr_name, raw, normalizer_result, data_type, stats, tags)
Process(attr_name, raw, normalizer_result, data_type, allowed_tags) ==
    [kind |-> "process", attr |-> attr_name, raw |-> raw, norm |-> normalizer_result,
     data_type |-> data_type, tags |-> allowed_tags]

\* upsert_attr(cur, hotel_id, attr_name, **call) followed by the counting of its result
Direct(attr_name, raw, normalizer_result, path, call) ==
    [kind |-> "direct", attr |-> attr_name, raw |-> raw, norm |-> normalizer_result,
     path |-> path, call |-> call]

\* the four boolean blocks
BoolPlan(attr_name, raw) == Process(attr_name, raw, normalize_bool(raw), "bool", <<>>)

\* a faulty variant of MaxPetsPlan: the count is strictly below the limit
MaxPetsPlanStrict(raw_max_pets, parsed_max_pets) ==
    IF parsed_max_pets # None
    THEN IF Val(parsed_max_pets) < PetCountMax
         THEN Process("max_pets_allowed", raw_max_pets, parsed_max_pets, "int", <<>>)
         ELSE Process("max_weight_lbs", raw_max_pets, parsed_max_pets, "int", <<>>)
    ELSE IF raw_max_pets.t # "none"
         THEN Process("max_pets_allowed", raw_max_pets, None, "int", <<>>)
    ELSE NoPlan

\* a faulty variant of MaxPetsPlan: the LLM is asked for the weight limit
MaxPetsPlanAsksWeight(raw_max_pets, parsed_max_pets) ==
    IF parsed_max_pets # None
    THEN IF Val(parsed_max_pets) <= PetCountMax
         THEN Process("max_pets_allowed", raw_max_pets, parsed_max_pets, "int", <<>>)
         ELSE Process("max_weight_lbs", raw_max_pets, parsed_max_pets, "int", <<>>)
    ELSE IF raw_max_pets.t # "none"
         THEN Process("max_weight_lbs", raw_max_pets, None, "int", <<>>)
    ELSE NoPlan

\* the max_pets block on parsed_max_pets
MaxPetsPlan(raw_max_pets, parsed_max_pets) ==
    IF parsed_max_pets # None
    THEN IF Val(parsed_max_pets) <= PetCountMax
         THEN Process("max_pets_allowed", raw_max_pets, parsed_max_pets, "int", <<>>)
         ELSE Process("max_weight_lbs", raw_max_pets, parsed_max_pets, "int", <<>>)
    ELSE IF raw_max_pets.t # "none"
         THEN Process("max_pets_allowed", raw_max_pets, None, "int", <<>>)
    ELSE NoPlan

\* a faulty variant of FeeCapPlan: the fee over the cap is kept on the invalid row
FeeCapPlanKeepsAmount(raw_fee, fee_val) ==
    IF fee_val # None /\ Val(fee_val) > FeeCap * 100
    THEN Direct("pet_fee_amount", raw_fee, fee_val, "fee-cap",
                [DefaultArgs EXCEPT !.is_invalid = TRUE, !.value_num = fee_val])
    ELSE Process("pet_fee_amount", raw_fee, fee_val, "float", <<>>)

\* the fee block on raw_fee and fee_val
FeeCapPlan(raw_fee, fee_val) ==
    IF fee_val # None /\ Val(fee_val) > FeeCap * 100
    THEN Direct("pet_fee_amount", raw_fee, fee_val, "fee-cap",
                [DefaultArgs EXCEPT !.is_invalid = TRUE])
    ELSE Process("pet_fee_amount", raw_fee, fee_val, "float", <<>>)

\* the fee block: raw_fee = row[2] or row[3]
FeeOf(raw_fee) == FeeCapPlan(raw_fee, normalize_float(raw_fee))

FeePlan(night, total_max) == IF Truthy(night) THEN FeeOf(night) ELSE FeeOf(total_max)

\* a faulty variant of DepositPlan: the deposit is written under the fee's attribute
DepositPlanAsFee(raw_deposit, val_deposit) ==
    IF val_deposit # None /\ Val(val_deposit) > 0
    THEN Process("pet_fee_amount", raw_deposit, val_deposit, "float", <<>>)
    ELSE IF raw_deposit.t # "none" /\ val_deposit = None
         THEN Process("pet_fee_amount", raw_deposit, None, "float", <<>>)
    ELSE NoPlan

\* the deposit block on val_deposit
DepositPlan(raw_deposit, val_deposit) ==
    IF val_deposit # None /\ Val(val_deposit) > 0
    THEN Process("pet_deposit_amount", raw_deposit, val_deposit, "float", <<>>)
    ELSE IF raw_deposit.t # "none" /\ val_deposit = None
         THEN Process("pet_deposit_amount", raw_deposit, None, "float", <<>>)
    ELSE NoPlan

\* the currency and the interval block on the mapped value
MappedPlan(attr_name, raw, mapped, allowed) ==
    IF mapped # None /\ Val(mapped) # "" /\ InSeq(Val(mapped), allowed)
    THEN Process(attr_name, raw, mapped, "str", <<>>)
    ELSE IF Truthy(raw) THEN Process(attr_name, raw, None, "str", <<>>)
    ELSE NoPlan

\* list_to_pg_arr(valid) if valid else None
ValidArr(valid) == IF valid = <<>> THEN None ELSE Some(list_to_pg_arr(valid))

\* the species and the breeds block on the normalizer's tags
TagPlan(attr_name, raw, tags, allowed_tags) ==
    IF tags # None /\ Val(tags) # <<>>
    THEN Process(attr_name, raw,
                 ValidArr(SelectSeq(Val(tags), LAMBDA t : InSeq(t, allowed_tags))),
                 "list[str]", allowed_tags)
    ELSE IF Truthy(raw) THEN Process(attr_name, raw, None, "list[str]", allowed_tags)
    ELSE NoPlan

\* the amenities block on the tags that are in AMENITY_TAGS
AmenitiesValid(raw_amenities, valid) ==
    IF valid # <<>>
    THEN Direct("pet_amenities_list", raw_amenities, Some(valid), "amenities",
                [DefaultArgs EXCEPT !.value_arr = Some(list_to_pg_arr(valid))])
    ELSE NoPlan

\* a faulty variant of AmenitiesPlan: a raw value without tags goes to process_attr
AmenitiesPlanWithFallback(raw_amenities, tags) ==
    IF tags # None /\ Val(tags) # <<>>
    THEN AmenitiesValid(raw_amenities, SelectSeq(Val(tags), LAMBDA t : InSeq(t, AMENITY_TAGS)))
    ELSE IF Truthy(raw_amenities)
    THEN Process("pet_amenities_list", raw_amenities, None, "list[str]", AMENITY_TAGS)
    ELSE NoPlan

\* the amenities block on the normalizer's tags
AmenitiesPlan(raw_amenities, tags) ==
    IF tags # None /\ Val(tags) # <<>>
    THEN AmenitiesValid(raw_amenities, SelectSeq(Val(tags), LAMBDA t : InSeq(t, AMENITY_TAGS)))
    ELSE NoPlan

\* the body of the loop over the fetched rows, block by block
Plans(row) ==
    << BoolPlan("is_pet_friendly", row.is_pet_friendly),
       BoolPlan("has_pet_deposit", row.has_pet_deposit),
       BoolPlan("is_deposit_refundable", row.is_deposit_refundable),
       BoolPlan("has_pet_amenities", row.has_pet_amenities),
       MaxPetsPlan(row.max_pets, normalize_int(row.max_pets)),
       FeePlan(row.pet_fee_night, row.pet_fee_total_max),
       DepositPlan(row.pet_fee_deposit, normalize_float(row.pet_fee_deposit)),
       MappedPlan("pet_fee_currency", row.pet_fee_currency,
                  normalize_currency(row.pet_fee_currency), ALLOWED_CURRENCIES),
       MappedPlan("pet_fee_interval", row.pet_fee_interval,
                  normalize_interval(row.pet_fee_interval), ALLOWED_INTERVALS),
       TagPlan("allowed_species", row.allowed_pet_types,
               normalize_species(row.allowed_pet_types), ALLOWED_SPECIES_TAGS),
       TagPlan("breed_restrictions", row.breed_restrictions,
               normalize_breeds(row.breed_restrictions), BREED_TAGS),
       AmenitiesPlan(row.pet_amenities, normalize_amenities(row.pet_amenities)),
       Process("pet_fee_variations", row.pet_fee_variations,
               text_to_pg_arr(row.pet_fee_variations), "list[str]", <<>>),
       Process("general_pet_rules", row.pet_policy,
               policy_to_pg_arr(row.pet_policy), "list[str]", <<>>) >>

\* the context after one block
RunPlan(p, c, attrs, hotel_id, answers) ==
    IF p.kind = "process"
    THEN process_attr(c, attrs, hotel_id, p.attr, p.raw, p.norm, p.data_type,
                      answers[p.attr], p.tags)
    ELSE IF p.kind = "direct"
    THEN Persist(c, attrs, hotel_id, p.attr, p.raw,
                 Decision(p.path, p.norm, Some(p.call), FALSE, NoLlm, NoAnswer))
    ELSE c

\* the context after the blocks from the i-th on
RECURSIVE RunPlans(_, _, _, _, _, _)
RunPlans(plans, i, c, attrs, hotel_id, answers) ==
    IF i > Len(plans) THEN c
    ELSE RunPlans(plans, i + 1, RunPlan(plans[i], c, attrs, hotel_id, answers),
                  attrs, hotel_id, answers)

(***************************************************************************)
(* Sample data: scraped records, seeded stores and LLM answers             *)
(***************************************************************************)
\* a scraped record with every raw column NULL
EmptyRecord(slug, hotel) ==
    [web_slug |-> slug, hotel_id |-> hotel,
     is_pet_friendly |-> RawNone, pet_fee_night |-> RawNone, pet_fee_total_max |-> RawNone,
     pet_fee_interval |-> RawNone, max_pets |-> RawNone, allowed_pet_types |-> RawNone,
     breed_restrictions |-> RawNone, has_pet_deposit |-> RawNone,
     is_deposit_refundable |-> RawNone, pet_fee_currency |-> RawNone,
     pet_fee_variations |-> RawNone, pet_amenities |-> RawNone,
     has_pet_amenities |-> RawNone, pet_policy |-> RawNone, pet_fee_deposit |-> RawNone]

\* ingestion.hotel_masterfile: id and slug
Masterfile == { [id |-> "h1", slug |-> "hilton-austin"], [id |-> "h2", slug |-> "hyatt-boston"] }

\* raw values a column is given in the model
FieldSamples ==
    {<<"is_pet_friendly", RawBool(TRUE)>>, <<"is_pet_friendly", RawStr(" Yes ")>>,
     <<"is_pet_friendly", RawStr("pets welcome")>>, <<"is_pet_friendly", RawStr("  ")>>,
     <<"has_pet_deposit", RawStr("no")>>, <<"has_pet_deposit", RawStr("maybe")>>,
     <<"is_deposit_refundable", RawBool(FALSE)>>, <<"is_deposit_refundable", RawStr("N")>>,
     <<"is_deposit_refundable", RawStr("TRUE")>>, <<"is_deposit_refundable", RawStr("t")>>,
     <<"is_deposit_refundable", RawStr("\tY\n")>>, <<"is_deposit_refundable", RawStr("1")>>,
     <<"is_deposit_refundable", RawStr("yes")>>, <<"is_deposit_refundable", RawStr("False")>>,
     <<"is_deposit_refundable", RawStr("NO ")>>, <<"is_deposit_refundable", RawStr("0")>>,
     <<"is_deposit_refundable", RawStr("f")>>, <<"is_deposit_refundable", RawInt(0)>>,
     <<"is_deposit_refundable", RawInt(2)>>, <<"is_deposit_refundable", RawStr("yes!")>>,
     <<"is_deposit_refundable", RawStr("on")>>, <<"is_deposit_refundable", RawStr("tr ue")>>,
     <<"is_deposit_refundable", RawStr("None")>>, <<"is_deposit_refundable", RawStr("10")>>,
     <<"has_pet_amenities", RawInt(1)>>, <<"has_pet_amenities", RawStr("")>>,
     <<"max_pets", RawStr("2 pets")>>, <<"max_pets", RawStr("15 lbs max")>>,
     <<"max_pets", RawStr("no limit")>>, <<"max_pets", RawInt(3)>>,
     <<"max_pets", RawStr(" ")>>, <<"max_pets", RawInt(10)>>, <<"max_pets", RawStr("11 kg")>>,
     <<"pet_fee_night", RawStr("$50.00")>>, <<"pet_fee_night", RawStr("1500")>>,
     <<"pet_fee_night", RawStr("$1000.50 total")>>, <<"pet_fee_night", RawStr("free")>>,
     <<"pet_fee_night", RawInt(1000)>>,
     <<"pet_fee_total_max", RawStr("$75 per stay")>>, <<"pet_fee_total_max", RawInt(2024)>>,
     <<"pet_fee_deposit", RawStr("100")>>, <<"pet_fee_deposit", RawStr("0")>>,
     <<"pet_fee_deposit", RawStr("varies")>>,
     <<"pet_fee_currency", RawStr("$")>>, <<"pet_fee_currency", RawStr("SEK")>>,
     <<"pet_fee_interval", RawStr("Per Night")>>, <<"pet_fee_interval", RawStr("monthly")>>,
     <<"allowed_pet_types", RawStr("Dogs and cats")>>,
     <<"allowed_pet_types", RawStr("reptiles")>>,
     <<"breed_restrictions", RawStr("No breed restrictions")>>,
     <<"breed_restrictions", RawStr("Pit Bull, Rottweiler")>>,
     <<"pet_amenities", RawStr("pet beds, bowls")>>, <<"pet_amenities", RawStr("WiFi, parking")>>,
     <<"pet_fee_variations", RawStr("$50 small|$75 large")>>,
     <<"pet_fee_variations", RawStr(" ; ")>>,
     <<"pet_fee_variations", RawStr("{\"raw\": \"a, b\"}")>>,
     <<"pet_policy", RawStr("Pets allowed. Max 2 pets; leash required")>>,
     <<"pet_policy", RawStr("ok")>>}

WithField(rec, fv) == [rec EXCEPT ![fv[1]] = fv[2]]

\* a scraped record whose slug matches hotel h1, not linked yet
Unlinked == EmptyRecord(Some("hilton-austin"), None)

\* a scraped record whose slug matches hotel h1 and whose raw columns are all blank text
AllBlank ==
    [f \in DOMAIN Unlinked |->
       IF f \in {"web_slug", "hotel_id"} THEN Unlinked[f]
       ELSE IF f \in {"has_pet_amenities", "pet_fee_total_max"} THEN RawStr("")
       ELSE RawStr("  ")]

\* one scraped record: linked by slug to h1, at most one raw column filled, or all blank
FirstRecords == {Unlinked, AllBlank} \cup { WithField(Unlinked, fv) : fv \in FieldSamples }

\* the first of two scraped records
PairFirsts ==
    { Unlinked, AllBlank,
      WithField(Unlinked, <<"is_pet_friendly", RawStr("pets welcome")>>),
      WithField(Unlinked, <<"max_pets", RawStr("2 pets")>>),
      WithField(Unlinked, <<"pet_fee_night", RawStr("1500")>>) }

\* the second of two scraped records: the same slug again, another hotel, a slug that
\* matches no hotel with a link left by an earlier run, and no slug at all
SecondRecords ==
    { WithField(EmptyRecord(Some("hilton-austin"), None), <<"max_pets", RawStr("15 lbs max")>>),
      WithField(EmptyRecord(Some("hyatt-boston"), None), <<"pet_fee_night", RawStr("$20")>>),
      WithField(EmptyRecord(Some("motel-nowhere"), Some("h2")), <<"is_pet_friendly", RawStr("yes")>>),
      WithField(EmptyRecord(None, Some("h1")), <<"pet_fee_currency", RawStr("eur")>>) }

\* a row as the earlier bulk insert left it: only the value column filled
SeedRow(id, hotel_id, attr_name, generated_by, enabled, is_invalid) ==
    [id |-> id, hotel_id |-> hotel_id, attribute_type_id |-> attr_name,
     value |-> IF is_invalid THEN None ELSE Some("raw text"),
     value_bool |-> None, value_int |-> None, value_num |-> None, value_arr |-> None,
     confidence |-> IF is_invalid THEN ConfInvalid ELSE 50,
     generated_by |-> generated_by, enabled |-> enabled,
     is_null |-> FALSE, is_invalid |-> is_invalid]

AttrOrder ==
    <<"is_pet_friendly", "pet_fee_amount", "pet_fee_interval", "max_pets_allowed",
      "max_weight_lbs", "allowed_species", "breed_restrictions", "has_pet_deposit",
      "is_deposit_refundable", "pet_fee_currency", "pet_fee_variations",
      "pet_amenities_list", "has_pet_amenities", "general_pet_rules",
      "pet_deposit_amount">>

\* stores the batch may find: empty; the bulk insert for h1; rows of another source next
\* to disabled web-scraper rows
SeedStores ==
    { {},
      { SeedRow(i, "h1", AttrOrder[i], "web-scraper", TRUE, FALSE) : i \in 1..Len(AttrOrder) },
      { SeedRow(i, "h1", AttrOrder[i], "sabre-parser-llm", TRUE, FALSE) : i \in 1..Len(AttrOrder) }
        \cup { SeedRow(Len(AttrOrder) + i, "h1", AttrOrder[i], "web-scraper", FALSE, TRUE) :
                 i \in 1..Len(AttrOrder) } }

\* the names public.attribute_types holds among those looked up at run time
Registry == {"minimum_pet_age"}

Ok(text) == [fails |-> 0, text |-> text]

\* what the LLM may do when asked about attribute a: reply at once, reply after two
\* failed attempts, or fail every attempt
AnswersFor(a) ==
    LET replies ==
          CASE a = "is_pet_friendly" -> {"True", " false ", "INVALID", "probably"}
            [] a = "max_pets_allowed" ->
                  {"3", "25", "NULL", "INVALID", "about 12 pets", "many", ""}
            [] a = "pet_fee_amount" -> {"25.50", "1500", "INVALID", "NULL"}
            [] a = "pet_fee_currency" -> {"sek", "SEK ", "invalid", "kr", "12$"}
            [] a = "pet_fee_interval" -> {"per-stay", "Per-Week", "monthly", "NULL"}
            [] a = "allowed_species" ->
                  {"PET_TYPE_DOG, PET_TYPE_CAT", "PET_TYPE_REPTILE", "pet_type_bird",
                   "PET_TYPE_REPTILE, PET_TYPE_SMALL", "NULL"}
            [] a = "breed_restrictions" -> {"BREED_HUSKY", "BREED_POODLE", "INVALID"}
            [] a = "has_pet_deposit" -> {"False", "NULL"}
            [] a = "pet_deposit_amount" -> {"150", "NULL"}
            [] OTHER -> {}
    IN IF replies = {} THEN {NoAnswer}
       ELSE { Ok(t) : t \in replies }
            \cup (IF a \in {"is_pet_friendly", "max_pets_allowed", "pet_fee_amount",
                            "pet_fee_currency", "pet_fee_interval", "allowed_species",
                            "breed_restrictions"}
                  THEN {[fails |-> MaxAttempts, text |-> ""]} ELSE {})
            \cup (IF a = "is_pet_friendly" THEN {[fails |-> 2, text |-> "True"]} ELSE {})

AnswerAttrs ==
    {"is_pet_friendly", "has_pet_deposit", "is_deposit_refundable", "has_pet_amenities",
     "max_pets_allowed", "max_weight_lbs", "pet_fee_amount", "pet_deposit_amount",
     "pet_fee_currency", "pet_fee_interval", "allowed_species", "breed_restrictions",
     "pet_fee_variations", "general_pet_rules", "pet_amenities_list"}

NoAnswers == [a \in AnswerAttrs |-> NoAnswer]

(***************************************************************************)
(* The batch: main() remaps the links, then transfer_attributes handles    *)
(* the linked records one by one and commits after each.                   *)
(***************************************************************************)
MaxRuns == 2

VARIABLES
    scraped,    \* test.web_scraped_hotels: a sequence of records
    store,      \* ingestion.hotel_attributes: a set of rows
    attr_map,   \* the names with an entry in ATTR_MAP
    rows,       \* the fetched records, as positions in scraped, in fetch order
    idx,        \* the position in rows of the next record to handle
    stats,      \* the counters of the run
    pc,         \* "idle", "remapped", "running", "done", "failed"; "upsert" for single calls
    runs,       \* the runs started, or the single calls made
    store0,     \* history: the store at the start
    before,     \* history: the store before the last hotel or the last single call
    log,        \* history: the events of the last hotel or the last single call
    used,       \* history: the answers the LLM gave in this run
    prev,       \* history: the store and the answers at the end of the run before
    gemini,     \* the locals of one call of call_gemini, GeminiIdle outside of it
    extraction  \* the JSON PetAttributeExtractor.extract parsed and what it returned

vars ==
    <<scraped, store, attr_map, rows, idx, stats, pc, runs, store0, before, log, used, prev,
      gemini, extraction>>

\* PetAttributeExtractor.extract is not running
NoExtraction == [pc |-> "off"]

\* no call of call_gemini is followed step by step
GeminiIdle == [pc |-> "off"]

ZeroStats == [hotels |-> 0, updated |-> 0, inserted |-> 0, invalid |-> 0, llm_calls |-> 0]

NoPrev == [ended |-> FALSE, store |-> {}, used |-> {}]

\* the tables the batch may find
Scenarios ==
    { [scraped |-> <<f>>, store |-> {}] : f \in FirstRecords }
    \cup { [scraped |-> <<f, s>>, store |-> z] :
             f \in PairFirsts, s \in SecondRecords, z \in SeedStores }

Init ==
    /\ \E sc \in Scenarios : scraped = sc.scraped /\ store = sc.store /\ store0 = sc.store
                             /\ before = sc.store
    /\ attr_map = StaticAttrs
    /\ rows = <<>>
    /\ idx = 1
    /\ stats = ZeroStats
    /\ pc = "idle"
    /\ runs = 0
    /\ log = <<>>
    /\ used = {}
    /\ prev = NoPrev
    /\ gemini = GeminiIdle
    /\ extraction = NoExtraction

\* the hotel whose slug is the record's, None when there is none
SlugMatch(rec) ==
    IF rec.web_slug # None /\ \E hm \in Masterfile : hm.slug = Val(rec.web_slug)
    THEN Some((CHOOSE hm \in Masterfile : hm.slug = Val(rec.web_slug)).id)
    ELSE None

\* a faulty variant of remap_slugs: records whose slug matches no hotel are deleted
remap_slugs_deleting(table) ==
    SelectSeq([i \in 1..Len(table) |-> [table[i] EXCEPT !.hotel_id = SlugMatch(table[i])]],
              LAMBDA rec : rec.hotel_id # None)

\* a faulty variant of remap_slugs: the links of earlier runs are not cleared
remap_slugs_keeping(table) ==
    [i \in 1..Len(table) |->
       IF SlugMatch(table[i]) # None
       THEN [table[i] EXCEPT !.hotel_id = SlugMatch(table[i])]
       ELSE table[i]]

\* remap_slugs: every link is cleared, then set where the slug matches a hotel
remap_slugs(table) == [i \in 1..Len(table) |-> [table[i] EXCEPT !.hotel_id = SlugMatch(table[i])]]

\* resolve_missing_attr_types
resolve_missing_attr_types(attrs) == attrs \cup (RuntimeAttrs \cap Registry)

\* the orders in which the positions of S may be fetched
RECURSIVE Orders(_)
Orders(S) ==
    IF S = {} THEN {<<>>}
    ELSE UNION { { <<i>> \o o : o \in Orders(S \ {i}) } : i \in S }

\* the attributes of the plans that go to llm_extract
LlmAttrs(plans) ==
    { plans[i].attr : i \in { j \in 1..Len(plans) :
                               /\ plans[j].kind = "process"
                               /\ plans[j].norm = None
                               /\ ~IsBlank(plans[j].raw) } }

\* the answers the LLM may give to the prompts about the attributes of S
RECURSIVE AnswersOver(_, _)
AnswersOver(S, f) ==
    IF S = {} THEN {f}
    ELSE UNION { AnswersOver(S \ {CHOOSE a \in S : TRUE},
                             [f EXCEPT ![CHOOSE a \in S : TRUE] = ans]) :
                 ans \in AnswersFor(CHOOSE a \in S : TRUE) }

\* the answers of the events for which call_gemini was called
UsedBy(events, pos) ==
    { [rec |-> pos, attr |-> events[i].attr, ans |-> events[i].ans] :
        i \in { j \in 1..Len(events) : events[j].contacted } }

\* main, step 1: remap_slugs and its commit
Remap ==
    /\ pc \in {"idle", "done", "failed"}
    /\ runs < MaxRuns
    /\ scraped' = remap_slugs(scraped)
    /\ pc' = "remapped"
    /\ runs' = runs + 1
    /\ UNCHANGED <<gemini, extraction, store, attr_map, rows, idx, stats, store0, before, log, used, prev>>

\* transfer_attributes up to the loop: the attribute types are resolved, the linked
\* records are fetched in an order of the database's choosing
BeginTransfer ==
    /\ pc = "remapped"
    /\ attr_map' = resolve_missing_attr_types(attr_map)
    /\ \E o \in Orders({ i \in 1..Len(scraped) : scraped[i].hotel_id # None }) : rows' = o
    /\ idx' = 1
    /\ stats' = [ZeroStats EXCEPT !.hotels = Len(rows')]
    /\ used' = {}
    /\ log' = <<>>
    /\ pc' = "running"
    /\ UNCHANGED <<gemini, extraction, scraped, store, runs, store0, before, prev>>

\* one iteration of the loop: every block for the record, then the commit
Hotel ==
    /\ pc = "running"
    /\ idx <= Len(rows)
    /\ \E plans \in {Plans(scraped[rows[idx]])} :
         \E answers \in AnswersOver(LlmAttrs(plans), NoAnswers) :
           \E c \in {RunPlans(plans, 1, [store |-> store, stats |-> stats, log |-> <<>>],
                              attr_map, Val(scraped[rows[idx]].hotel_id), answers)} :
             /\ store' = c.store
             /\ stats' = c.stats
             /\ log' = c.log
             /\ used' = used \cup UsedBy(c.log, rows[idx])
    /\ before' = store
    /\ idx' = idx + 1
    /\ UNCHANGED <<gemini, extraction, scraped, attr_map, rows, pc, runs, store0, prev>>

\* transfer_attributes after the loop: the counters are returned
Finish ==
    /\ pc = "running"
    /\ idx > Len(rows)
    /\ pc' = "done"
    /\ prev' = [ended |-> TRUE, store |-> store, used |-> used]
    /\ UNCHANGED <<gemini, extraction, scraped, store, attr_map, rows, idx, stats, runs, store0, before, log, used>>

Next == Remap \/ BeginTransfer \/ Hotel \/ Finish

Spec == Init /\ [][Next]_vars

(***************************************************************************)
(* The batch with statements that fail: cur.execute or conn.commit raises  *)
(* while a record is handled.  The loop has no handler of its own; the     *)
(* exception leaves transfer_attributes and main rolls the transaction     *)
(* back and returns 500.                                                   *)
(***************************************************************************)
\* three scraped records with two raw columns each, for hotels h1, h2 and h1 again
FailRecords ==
    << [EmptyRecord(Some("hilton-austin"), None) EXCEPT
          !.is_pet_friendly = RawStr(" Yes "), !.max_pets = RawStr("2 pets")],
       [EmptyRecord(Some("hyatt-boston"), None) EXCEPT
          !.is_pet_friendly = RawBool(TRUE), !.pet_fee_night = RawStr("$50.00")],
       [EmptyRecord(Some("hilton-austin"), None) EXCEPT
          !.has_pet_deposit = RawStr("no"), !.max_pets = RawStr("15 lbs max")] >>

InitFail ==
    /\ scraped \in {SubSeq(FailRecords, 1, 2), FailRecords}
    /\ \E z \in SeedStores : store = z /\ store0 = z /\ before = z
    /\ attr_map = StaticAttrs
    /\ rows = <<>>
    /\ idx = 1
    /\ stats = ZeroStats
    /\ pc = "idle"
    /\ runs = 0
    /\ log = <<>>
    /\ used = {}
    /\ prev = NoPrev
    /\ gemini = GeminiIdle
    /\ extraction = NoExtraction

\* a faulty variant of rollback: the writes of the open transaction stay
RollbackKeepsWrites(committed, working) == working

\* conn.rollback(): the store is what the last commit left
rollback(committed, working) == committed

\* the j-th block of the record sent a statement to the database: c is the context
\* before the block, d the context after it
Executed(c, d) == Len(d.log) > Len(c.log) /\ d.log[Len(d.log)].result \in {"updated", "inserted"}

\* one iteration of the loop in which the statement of the j-th block raises, or the
\* commit does (j past the last block): the blocks before it have written in the open
\* transaction, the exception ends the loop, main rolls back and returns 500
HotelFails ==
    /\ pc = "running"
    /\ idx <= Len(rows)
    /\ \E plans \in {Plans(scraped[rows[idx]])} :
         \E j \in 1..(Len(plans) + 1) :
           \E answers \in AnswersOver(LlmAttrs(SubSeq(plans, 1, j - 1)), NoAnswers) :
             \E c \in {RunPlans(SubSeq(plans, 1, j - 1), 1,
                                [store |-> store, stats |-> stats, log |-> <<>>],
                                attr_map, Val(scraped[rows[idx]].hotel_id), answers)} :
               /\ \/ j = Len(plans) + 1
                  \/ /\ j <= Len(plans)
                     /\ plans[j].kind # "none"
                     /\ \E ans \in (IF plans[j].kind = "process"
                                     THEN AnswersFor(plans[j].attr) ELSE {NoAnswer}) :
                          Executed(c, RunPlan(plans[j], c, attr_map,
                                              Val(scraped[rows[idx]].hotel_id),
                                              [answers EXCEPT ![plans[j].attr] = ans]))
               /\ store' = rollback(store, c.store)
               /\ stats' = c.stats
               /\ log' = c.log
               /\ used' = used \cup UsedBy(c.log, rows[idx])
    /\ before' = store
    /\ pc' = "failed"
    /\ UNCHANGED <<gemini, extraction, scraped, attr_map, rows, idx, runs, store0, prev>>

NextFail == Remap \/ BeginTransfer \/ Hotel \/ HotelFails \/ Finish

SpecFail == InitFail /\ [][NextFail]_vars

(***************************************************************************)
(* upsert_attr on its own: single calls with any hotel, attribute and      *)
(* keyword arguments, on stores an earlier history may have left.          *)
(***************************************************************************)
MaxCalls == 2

\* stores a call may find: empty; one enabled web-scraper row per attribute; rows of
\* another source beside disabled web-scraper rows; an enabled and a disabled web-scraper
\* row for one attribute; two enabled web-scraper rows for one attribute
UpsertStores ==
    { {},
      { SeedRow(1, "h1", "is_pet_friendly", "web-scraper", TRUE, FALSE),
        SeedRow(2, "h1", "max_pets_allowed", "web-scraper", TRUE, FALSE) },
      { SeedRow(1, "h1", "is_pet_friendly", "sabre-parser-llm", TRUE, FALSE),
        SeedRow(2, "h1", "is_pet_friendly", "web-scraper", FALSE, TRUE),
        SeedRow(3, "h2", "max_pets_allowed", "sabre-parser-llm", TRUE, FALSE) },
      { SeedRow(1, "h1", "is_pet_friendly", "web-scraper", TRUE, FALSE),
        SeedRow(2, "h1", "is_pet_friendly", "web-scraper", FALSE, TRUE) },
      { SeedRow(1, "h1", "is_pet_friendly", "web-scraper", TRUE, FALSE),
        SeedRow(2, "h1", "is_pet_friendly", "web-scraper", TRUE, FALSE) } }

\* the attributes of the calls: a bool, an int, and one ATTR_MAP may have no entry for
UpsertAttrs == {"is_pet_friendly", "max_pets_allowed", "minimum_pet_age"}

\* the keyword arguments of the calls
UpsertArgs ==
    { [DefaultArgs EXCEPT !.value_bool = Some(TRUE)],
      [DefaultArgs EXCEPT !.value_int = Some(3)],
      [DefaultArgs EXCEPT !.is_null = TRUE],
      [DefaultArgs EXCEPT !.is_invalid = TRUE],
      [DefaultArgs EXCEPT !.value_bool = Some(FALSE), !.is_invalid = TRUE],
      [DefaultArgs EXCEPT !.value_num = Some(5000)],
      [DefaultArgs EXCEPT !.value = Some("nightly"), !.value_arr = Some("{\"PET_TYPE_DOG\"}")] }

InitUpsert ==
    /\ \E z \in UpsertStores : store = z /\ store0 = z /\ before = z
    /\ attr_map \in {StaticAttrs, resolve_missing_attr_types(StaticAttrs)}
    /\ scraped = <<>>
    /\ rows = <<>>
    /\ idx = 1
    /\ stats = ZeroStats
    /\ pc = "upsert"
    /\ runs = 0
    /\ log = <<>>
    /\ used = {}
    /\ prev = NoPrev
    /\ gemini = GeminiIdle
    /\ extraction = NoExtraction

\* one call of upsert_attr
UpsertCall ==
    /\ pc = "upsert"
    /\ runs < MaxCalls
    /\ \E hotel_id \in {"h1", "h2"}, attr_name \in UpsertAttrs, a \in UpsertArgs :
         \E u \in {upsert_attr(store, attr_map, hotel_id, attr_name, a)} :
           /\ store' = u.store
           /\ log' = << Event(hotel_id, attr_name, RawNone,
                              Decision("call", None, Some(a), FALSE, NoLlm, NoAnswer),
                              u.result) >>
    /\ before' = store
    /\ runs' = runs + 1
    /\ UNCHANGED <<gemini, extraction, scraped, attr_map, rows, idx, stats, pc, store0, used, prev>>

SpecUpsert == InitUpsert /\ [][UpsertCall]_vars

\* what process_attr may be handed for an attribute: a raw value the normalizer parsed,
\* one it did not, and no raw value
ProcessInputs(attr_name) ==
    { [raw |-> RawStr("no data yet"), norm |-> None], [raw |-> RawNone, norm |-> None],
      IF ATTR_DATA_TYPES(attr_name) = "bool"
      THEN [raw |-> RawStr(" Yes "), norm |-> Some(TRUE)]
      ELSE [raw |-> RawStr("3"), norm |-> Some(3)] }

\* one call of process_attr
ProcessCall ==
    /\ pc = "upsert"
    /\ runs < MaxCalls
    /\ \E hotel_id \in {"h1", "h2"}, attr_name \in UpsertAttrs :
         \E x \in ProcessInputs(attr_name),
            ans \in {Ok("True"), Ok("NULL"), [fails |-> MaxAttempts, text |-> ""]} :
           \E c \in {process_attr([store |-> store, stats |-> stats, log |-> <<>>], attr_map,
                                  hotel_id, attr_name, x.raw, x.norm,
                                  ATTR_DATA_TYPES(attr_name), ans, <<>>)} :
             /\ store' = c.store
             /\ stats' = c.stats
             /\ log' = c.log
    /\ before' = store
    /\ runs' = runs + 1
    /\ UNCHANGED <<gemini, extraction, scraped, attr_map, rows, idx, pc, store0, used, prev>>

SpecProcess == InitUpsert /\ [][ProcessCall]_vars

(***************************************************************************)
(* The blocks of one record taken in any order: what the loop would do     *)
(* were its blocks arranged otherwise.                                     *)
(***************************************************************************)
\* scraped records with three raw columns filled
OrderRecords ==
    { [EmptyRecord(Some("hilton-austin"), None) EXCEPT
         !.is_pet_friendly = RawStr("pets welcome"), !.pet_fee_night = RawStr("$50.00"),
         !.pet_fee_deposit = RawStr("100")],
      [EmptyRecord(Some("hilton-austin"), None) EXCEPT
         !.max_pets = RawStr("15 lbs max"), !.pet_fee_currency = RawStr("$"),
         !.breed_restrictions = RawStr("Pit Bull, Rottweiler")] }

InitOrder ==
    /\ \E rec \in OrderRecords : scraped = <<rec>>
    /\ \E z \in SeedStores : store = z /\ store0 = z /\ before = z
    /\ attr_map = StaticAttrs
    /\ rows = <<>>
    /\ idx = 1
    /\ stats = ZeroStats
    /\ pc = "idle"
    /\ runs = 0
    /\ log = <<>>
    /\ used = {}
    /\ prev = NoPrev
    /\ gemini = GeminiIdle
    /\ extraction = NoExtraction

\* the positions of the blocks that call upsert_attr or llm_extract
Active(plans) ==
    { j \in 1..Len(plans) :
        /\ plans[j].kind # "none"
        /\ plans[j].kind = "process" => (plans[j].norm # None \/ ~IsBlank(plans[j].raw)) }

\* the blocks at the positions o, in that order, then the blocks that do nothing
Arranged(plans, o) ==
    [k \in 1..Len(o) |-> plans[o[k]]]
      \o SelectSeq(plans, LAMBDA p : p.kind = "process" /\ p.norm = None /\ IsBlank(p.raw))

\* one iteration of the loop with its blocks in some order, then the commit
HotelAnyOrder ==
    /\ pc = "running"
    /\ idx <= Len(rows)
    /\ \E plans \in {Plans(scraped[rows[idx]])} :
         \E answers \in AnswersOver(LlmAttrs(plans), NoAnswers), o \in Orders(Active(plans)) :
           \E c \in {RunPlans(Arranged(plans, o), 1,
                              [store |-> store, stats |-> stats, log |-> <<>>],
                              attr_map, Val(scraped[rows[idx]].hotel_id), answers)} :
             /\ store' = c.store
             /\ stats' = c.stats
             /\ log' = c.log
             /\ used' = used \cup UsedBy(c.log, rows[idx])
    /\ before' = store
    /\ idx' = idx + 1
    /\ UNCHANGED <<gemini, extraction, scraped, attr_map, rows, pc, runs, store0, prev>>

NextOrder == Remap \/ BeginTransfer \/ HotelAnyOrder \/ Finish

SpecOrder == InitOrder /\ [][NextOrder]_vars

(***************************************************************************)
(* call_gemini step by step: the attempts of the loop, the sleeps between  *)
(* them and the return, for a transport that raises on its first           *)
(* gemini.ans.fails attempts.                                              *)
(***************************************************************************)
MaxFails == 4

\* the replies the samples hold
GeminiTexts == UNION { { x.text : x \in AnswersFor(a) } : a \in AnswerAttrs }

InitGemini ==
    /\ scraped = <<>>
    /\ store = {} /\ store0 = {} /\ before = {}
    /\ attr_map = StaticAttrs
    /\ rows = <<>>
    /\ idx = 1
    /\ stats = ZeroStats
    /\ pc = "gemini"
    /\ runs = 0
    /\ log = <<>>
    /\ used = {}
    /\ prev = NoPrev
    /\ extraction = NoExtraction
    /\ \E f \in 0..MaxFails, t \in GeminiTexts :
         gemini = [pc |-> "try", attempt |-> 0, calls |-> 0, sleeps |-> <<>>,
                   result |-> None, ans |-> [fails |-> f, text |-> t]]

\* a faulty variant of Retry: a sleep follows every failed attempt
RetryAlways(attempt) == TRUE

\* the test of the except clause: another attempt follows this one
Retry(attempt) == attempt < MaxAttempts - 1

\* one pass of the loop body: generate_content is called; its reply is returned
\* stripped, or the exception is caught and the loop sleeps or gives up
GeminiAttempt ==
    /\ gemini.pc = "try"
    /\ gemini' =
         IF gemini.attempt >= MaxAttempts
         THEN [gemini EXCEPT !.pc = "returned", !.result = None]
         ELSE IF gemini.calls >= gemini.ans.fails
         THEN [gemini EXCEPT !.pc = "returned", !.calls = @ + 1,
                             !.result = Some(Strip(gemini.ans.text))]
         ELSE IF Retry(gemini.attempt)
         THEN [gemini EXCEPT !.pc = "sleep", !.calls = @ + 1]
         ELSE [gemini EXCEPT !.pc = "returned", !.calls = @ + 1, !.result = None]
    /\ UNCHANGED <<scraped, store, attr_map, rows, idx, stats, pc, runs, store0, before, log,
                   used, prev, extraction>>

\* time.sleep(2 ** attempt), then the next pass of the loop
GeminiSleep ==
    /\ gemini.pc = "sleep"
    /\ gemini' = [gemini EXCEPT !.pc = "try", !.sleeps = Append(@, 2 ^ gemini.attempt),
                                !.attempt = @ + 1]
    /\ UNCHANGED <<scraped, store, attr_map, rows, idx, stats, pc, runs, store0, before, log,
                   used, prev, extraction>>

NextGemini == GeminiAttempt \/ GeminiSleep

\* the loop body and the sleep are sequential code: a step that can be taken is taken
SpecGemini == InitGemini /\ [][NextGemini]_vars /\ WF_vars(NextGemini)

(***************************************************************************)
(* The tri-state fields of src/llm/models.py: PetAttributeExtractor.extract *)
(* validates the parsed JSON against the pydantic models and returns the   *)
(* dump, or {} when validation raises.  Three of the fields are followed:  *)
(* a NullableBool, a NullableInt and a NullableStringList.                 *)
(***************************************************************************)
ExtractionStatus == {"present", "explicit_none", "not_mentioned"}

\* a JSON array of strings
JsonList(items) == [t |-> "list", v |-> items]

\* Optional[T]: null, or a JSON value of the type T
OptionalOf(T, value) ==
    \/ value.t = "none"
    \/ T = "bool" /\ value.t = "bool"
    \/ T = "int" /\ value.t = "int"
    \/ T = "list" /\ value.t = "list"

\* NullableBool, NullableInt, NullableStringList: the object pydantic builds from a JSON
\* object with status and value, None when validation raises
NullableField(T, json) ==
    IF json.status \in ExtractionStatus /\ OptionalOf(T, json.value)
    THEN Some([status |-> json.status, value |-> json.value])
    ELSE None

\* the types of the fields followed
FieldTypes ==
    [is_pet_friendly |-> "bool", max_pets_allowed |-> "int", breed_restrictions |-> "list"]

\* HotelPetRelatedInformationWithConfidence(**parsed_json).model_dump(), {} as None
extract(parsed_json) ==
    IF \A f \in DOMAIN FieldTypes : NullableField(FieldTypes[f], parsed_json[f]) # None
    THEN Some([f \in DOMAIN FieldTypes |-> Val(NullableField(FieldTypes[f], parsed_json[f]))])
    ELSE None

\* the JSON objects a field may come as: every status and one that is none, with null,
\* a value of the field's type, or a value of another type
JsonFields(T) ==
    { [status |-> st, value |-> v] :
        st \in ExtractionStatus \cup {"unknown"},
        v \in {RawNone, JsonList(<<"BREED_PIT_BULL">>)}
               \cup (IF T = "bool" THEN {RawBool(TRUE)}
                     ELSE IF T = "int" THEN {RawInt(2)} ELSE {RawBool(FALSE)}) }

InitExtract ==
    /\ scraped = <<>>
    /\ store = {} /\ store0 = {} /\ before = {}
    /\ attr_map = StaticAttrs
    /\ rows = <<>>
    /\ idx = 1
    /\ stats = ZeroStats
    /\ pc = "extract"
    /\ runs = 0
    /\ log = <<>>
    /\ used = {}
    /\ prev = NoPrev
    /\ gemini = GeminiIdle
    /\ \E a \in JsonFields("bool"), b \in JsonFields("int"), c \in JsonFields("list") :
         extraction = [pc |-> "parsed",
                       json |-> [is_pet_friendly |-> a, max_pets_allowed |-> b,
                                 breed_restrictions |-> c],
                       result |-> None]

\* extract from the parsed JSON on: validation, dump, return
Extract ==
    /\ extraction.pc = "parsed"
    /\ extraction' = [extraction EXCEPT !.pc = "returned", !.result = extract(extraction.json)]
    /\ UNCHANGED <<scraped, store, attr_map, rows, idx, stats, pc, runs, store0, before, log,
                   used, prev, gemini>>

SpecExtract == InitExtract /\ [][Extract]_vars

(***************************************************************************)
(* Properties                                                              *)
(***************************************************************************)
\* the web-scraper rows of a store for a hotel and an attribute
ScraperRows(st, hotel_id, attr_name) ==
    { r \in st : /\ r.hotel_id = hotel_id
                 /\ r.attribute_type_id = attr_name
                 /\ r.generated_by = "web-scraper" }

\* the call of the event wrote a row
Wrote(e) == e.result \in {"updated", "inserted"}

\* the row has no typed value and no text
NoValue(r) ==
    /\ r.value = None
    /\ r.value_bool = None
    /\ r.value_int = None
    /\ r.value_num = None
    /\ r.value_arr = None

\* the loop of a run is over, and a run before it ended with the same LLM answers
Replayed == pc = "running" /\ idx > Len(rows) /\ prev.ended /\ used = prev.used

\* C1: when a run is replayed on the same raw input with the same LLM answers, no
\* (hotel, attribute) has more web-scraper rows than after the run before, and every row
\* the run before left is still there with the same fields.
C1_ReplayLeavesStore ==
    Replayed =>
      /\ \A r \in store :
           Cardinality(ScraperRows(store, r.hotel_id, r.attribute_type_id))
             <= Cardinality(ScraperRows(prev.store, r.hotel_id, r.attribute_type_id))
      /\ \A r \in prev.store : r \in store

\* the enabled rows of a store that share hotel, attribute and provenance with row r
EnabledLike(st, r) ==
    { q \in st : /\ q.hotel_id = r.hotel_id
                 /\ q.attribute_type_id = r.attribute_type_id
                 /\ q.generated_by = r.generated_by
                 /\ q.enabled }

AtMostOneEnabled(st, sources) ==
    \A r \in st : r.generated_by \in sources => Cardinality(EnabledLike(st, r)) <= 1

\* C2: if the store the calls start from holds at most one enabled web-scraper row per
\* (hotel, attribute), then after any calls of upsert_attr the store holds at most one
\* enabled row per (hotel, attribute, provenance).
C2_OneEnabledRow ==
    AtMostOneEnabled(store0, {"web-scraper"})
      => AtMostOneEnabled(store, {"web-scraper", "sabre-parser-llm"})

\* an enabled row was inserted beside a disabled row of the same hotel and attribute
C2_Witness ==
    /\ AtMostOneEnabled(store0, {"web-scraper"})
    /\ runs >= 2
    /\ \E r \in store, q \in store :
         /\ r.generated_by = "web-scraper" /\ r.enabled
         /\ q \in ScraperRows(store, r.hotel_id, r.attribute_type_id) /\ ~q.enabled
         /\ r \notin store0 /\ q \notin store0

\* the rows the UPDATE of the event's call is scoped to
Targets(st, e) == { r \in ScraperRows(st, e.hotel_id, e.attr) : r.enabled }

\* the row carries the field values of the call
Carries(r, a) ==
    /\ r.value_bool = a.value_bool
    /\ r.value_int = a.value_int
    /\ r.value_num = a.value_num
    /\ r.value_arr = a.value_arr
    /\ r.is_null = a.is_null
    /\ r.is_invalid = a.is_invalid

Ids(st) == { r.id : r \in st }

\* C3: a call of upsert_attr for a resolvable attribute, when enabled web-scraper rows of
\* the hotel and attribute exist, returns 'updated', gives those rows the call's values
\* and inserts nothing; when none exists it returns 'inserted' and adds exactly one row,
\* with an identity no row had, provenance 'web-scraper' and the call's values.
C3_UpdateElseInsert ==
    \A i \in 1..Len(log) :
      (log[i].path = "call" /\ log[i].attr \in attr_map) =>
        IF Targets(before, log[i]) # {}
        THEN /\ log[i].result = "updated"
             /\ Ids(store) = Ids(before)
             /\ Cardinality(store) = Cardinality(before)
             /\ \A r \in before \ Targets(before, log[i]) : r \in store
             /\ \A r \in Targets(before, log[i]) :
                  \E w \in store : w.id = r.id /\ Carries(w, Val(log[i].call))
        ELSE /\ log[i].result = "inserted"
             /\ before \subseteq store
             /\ Cardinality(store \ before) = 1
             /\ \A w \in store \ before :
                  /\ w.id \notin Ids(before)
                  /\ w.hotel_id = log[i].hotel_id
                  /\ w.attribute_type_id = log[i].attr
                  /\ w.generated_by = "web-scraper"
                  /\ Carries(w, Val(log[i].call))

\* a call inserted a row although a disabled web-scraper row of the hotel and attribute
\* was there
C3_Witness ==
    \E i \in 1..Len(log) :
      /\ log[i].path = "call"
      /\ log[i].result = "inserted"
      /\ ScraperRows(before, log[i].hotel_id, log[i].attr) # {}

\* the raw value is neither null nor a blank string
HasData(raw) == raw.t # "none" /\ ~(raw.t = "str" /\ Strip(raw.s) = "")

\* C4: llm_extract is invoked for an attribute only when the normalizer returned None
\* and the raw value is neither null nor blank.
C4_LlmOnlyAfterNormalizerFailed ==
    \A i \in 1..Len(log) : log[i].invoked => (log[i].norm = None /\ HasData(log[i].raw))

\* llm_extract was invoked and called the LLM
C4_Witness == \E i \in 1..Len(log) : log[i].invoked /\ log[i].contacted /\ Wrote(log[i])

\* the replies of the model that hold no valid answer for the attribute: INVALID, text
\* that does not parse as the attribute's type, values outside its vocabulary
BadReplies(attr_name) ==
    CASE attr_name = "is_pet_friendly" -> {"INVALID", "probably"}
      [] attr_name = "has_pet_deposit" -> {"NULL"}
      [] attr_name = "max_pets_allowed" -> {"INVALID", "many", ""}
      [] attr_name = "pet_fee_amount" -> {"INVALID", "NULL"}
      [] attr_name = "pet_deposit_amount" -> {"NULL"}
      [] attr_name = "pet_fee_currency" -> {"invalid", "kr"}
      [] attr_name = "pet_fee_interval" -> {"monthly", "NULL"}
      [] attr_name = "allowed_species" -> {"PET_TYPE_REPTILE", "NULL"}
      [] attr_name = "breed_restrictions" -> {"BREED_POODLE", "INVALID"}
      [] OTHER -> {}

\* every attempt to reach the LLM failed
TransportFailed(e) == e.contacted /\ e.ans.fails >= 3

\* the LLM was asked and gave no valid answer
NoValidAnswer(e) ==
    e.contacted /\ (e.ans.fails >= 3 \/ e.ans.text \in BadReplies(e.attr))

\* the row is the invalid marker: is_invalid, confidence 0.0, disabled, no value
InvalidRow(r) ==
    /\ r.is_invalid
    /\ ~r.is_null
    /\ r.confidence = 0
    /\ ~r.enabled
    /\ NoValue(r)

InVocabulary(text) ==
    CASE text = "PET_TYPE_DOG, PET_TYPE_CAT" -> <<"PET_TYPE_DOG", "PET_TYPE_CAT">>
      [] text = "PET_TYPE_REPTILE" -> <<>>
      [] text = "pet_type_bird" -> <<"PET_TYPE_BIRD">>
      [] text = "PET_TYPE_REPTILE, PET_TYPE_SMALL" -> <<"PET_TYPE_SMALL">>
      [] text = "BREED_HUSKY" -> <<"BREED_HUSKY">>
      [] text = "BREED_POODLE" -> <<>>
      [] text = "per-stay" -> <<"per-stay">>
      [] text = "Per-Week" -> <<"per-week">>
      [] text = "monthly" -> <<>>
      [] text \in {"NULL", "INVALID", "True"} -> <<>>

ClosedAttrs == {"allowed_species", "breed_restrictions", "pet_amenities_list", "pet_fee_interval"}

ClosedVocabulary(attr_name) ==
    CASE attr_name = "allowed_species" -> ALLOWED_SPECIES_TAGS
      [] attr_name = "breed_restrictions" -> BREED_TAGS
      [] attr_name = "pet_amenities_list" -> AMENITY_TAGS
      [] attr_name = "pet_fee_interval" -> ALLOWED_INTERVALS

\* the items of a postgres array literal written by list_to_pg_arr
PgArrItems(arr) == IF arr = "{}" THEN <<>> ELSE Split(SubSeq(arr, 2, Len(arr) - 1), {","})

\* the values a row holds for a closed vocabulary: the interval of its value column, or
\* the tags of its array column
PersistedTags(r) ==
    IF r.attribute_type_id = "pet_fee_interval"
    THEN IF r.value = None THEN <<>> ELSE <<Val(r.value)>>
    ELSE IF r.value_arr = None THEN <<>> ELSE PgArrItems(Val(r.value_arr))

\* the values the call of an event hands to upsert_attr for a closed vocabulary
CalledTags(e) ==
    IF e.attr = "pet_fee_interval"
    THEN IF Val(e.call).value = None THEN <<>> ELSE <<Val(Val(e.call).value)>>
    ELSE IF Val(e.call).value_arr = None THEN <<>> ELSE PgArrItems(Val(Val(e.call).value_arr))

\* C8: for the closed vocabularies, every row written holds either the invalid marker or
\* a non-empty value made of allowed members only; an LLM reply with no allowed member
\* is written as invalid, and of a reply that mixes allowed and other tags exactly the
\* allowed ones are written.
C8_ClosedVocabularies ==
    /\ \A r \in store \ before :
         (r.attribute_type_id \in ClosedAttrs /\ r.generated_by = "web-scraper") =>
           IF r.is_invalid THEN NoValue(r)
           ELSE /\ PersistedTags(r) # <<>>
                /\ \A k \in 1..Len(PersistedTags(r)) :
                     InSeq(PersistedTags(r)[k], ClosedVocabulary(r.attribute_type_id))
    /\ \A i \in 1..Len(log) :
         (log[i].attr \in ClosedAttrs /\ log[i].contacted /\ log[i].ans.fails < 3) =>
           /\ log[i].call # None
           /\ IF InVocabulary(log[i].ans.text) = <<>>
              THEN Val(log[i].call).is_invalid /\ CalledTags(log[i]) = <<>>
              ELSE ~Val(log[i].call).is_invalid
                   /\ CalledTags(log[i]) = InVocabulary(log[i].ans.text)

\* a reply mixing an allowed tag with one outside the vocabulary was written
C8_Witness ==
    \E i \in 1..Len(log) :
      /\ log[i].attr = "allowed_species"
      /\ log[i].ans.text = "PET_TYPE_REPTILE, PET_TYPE_SMALL"
      /\ log[i].result = "inserted"
      /\ \E r \in store \ before : r.value_arr = Some("{PET_TYPE_SMALL}")

\* C9: every row a call of upsert_attr writes, by update or by insert, has confidence
\* 0.85 and enabled=true when is_invalid is false, and confidence 0.0 and enabled=false
\* when is_invalid is true, whatever the arguments of the call.
C9_ConfidenceDerived ==
    \A r \in store \ before :
      IF r.is_invalid THEN r.confidence = 0 /\ ~r.enabled
      ELSE r.confidence = 85 /\ r.enabled

\* a call passed a value together with is_invalid and updated a row
C9_Witness ==
    \E i \in 1..Len(log) :
      /\ log[i].result = "updated"
      /\ Val(log[i].call).is_invalid
      /\ Val(log[i].call).value_bool # None
      /\ \E r \in store \ before : r.is_invalid /\ r.value_bool # None

\* the LLM answered NULL
AnsweredNull(e) == e.contacted /\ e.ans.fails < 3 /\ e.ans.text = "NULL"

\* C10: when the LLM answers NULL for an integer attribute, a row is written with
\* is_null=true, confidence 0.85, enabled=true and value_int null; and a row written
\* with is_null=true is always that of an integer attribute for which the LLM answered
\* NULL.
C10_NullOnlyForInt ==
    /\ \A i \in 1..Len(log) :
         (AnsweredNull(log[i]) /\ ATTR_DATA_TYPES(log[i].attr) = "int") =>
           /\ Wrote(log[i])
           /\ \E r \in ScraperRows(store, log[i].hotel_id, log[i].attr) :
                /\ r.is_null /\ ~r.is_invalid
                /\ r.confidence = 85 /\ r.enabled
                /\ NoValue(r)
    /\ \A i \in 1..Len(log) :
         (log[i].call # None /\ Val(log[i].call).is_null) =>
           AnsweredNull(log[i]) /\ ATTR_DATA_TYPES(log[i].attr) = "int"
    /\ \A r \in store \ before :
         r.is_null => ATTR_DATA_TYPES(r.attribute_type_id) = "int"

\* the LLM answered NULL for max_pets_allowed and a row was inserted
C10_Witness ==
    \E i \in 1..Len(log) :
      /\ AnsweredNull(log[i])
      /\ log[i].attr = "max_pets_allowed"
      /\ log[i].result = "inserted"

\* the fee obtained for the event, from the normalizer or from the LLM, exceeds the cap
FeeAbove(e, cap) ==
    \/ e.norm # None /\ Val(e.norm) > cap * 100
    \/ e.llm_val.k = "float" /\ e.llm_val.v > cap * 100

\* C6: whenever the pet fee obtained, from the float normalizer or from the LLM, exceeds
\* 1000, the pet_fee_amount row is written with is_invalid=true and no numeric value, and
\* a normalizer-parsed fee above 1000 never reaches llm_extract.
C6_FeeCapFromAnySource ==
    \A i \in 1..Len(log) :
      (log[i].attr = "pet_fee_amount" /\ FeeAbove(log[i], 1000)) =>
        /\ log[i].call # None
        /\ Val(log[i].call).is_invalid
        /\ Val(log[i].call).value_num = None
        /\ (log[i].norm # None => ~log[i].invoked)

\* C7: when the breed_restrictions raw text of a record is "No breed restrictions", no
\* breed_restrictions row is inserted or updated for its hotel.
C7_NoRowForNoRestrictions ==
    \A i \in 1..Len(log) :
      (log[i].attr = "breed_restrictions" /\ log[i].raw = RawStr("No breed restrictions"))
        => ~Wrote(log[i])

\* a record has been handled in this run; the log holds its events
Handled == pc \in {"running", "done", "remapped"} /\ idx > 1 /\ idx - 1 <= Len(rows)

\* the record the log is about
LastRecord == scraped[rows[idx - 1]]

\* the integer the sample texts of the max_pets column stand for, None where they hold none
SampleInt(raw) ==
    CASE raw = RawStr("2 pets") -> Some(2)
      [] raw = RawStr("15 lbs max") -> Some(15)
      [] raw = RawStr("11 kg") -> Some(11)
      [] raw = RawInt(3) -> Some(3)
      [] raw = RawInt(10) -> Some(10)
      [] OTHER -> None

\* the events of the log that wrote a row of the attribute
Writes(attr_name) == { i \in 1..Len(log) : log[i].attr = attr_name /\ Wrote(log[i]) }

\* the hotel has an enabled web-scraper row of the attribute with the integer n
HasInt(hotel_id, attr_name, n) ==
    \E r \in ScraperRows(store, hotel_id, attr_name) :
      r.value_int = Some(n) /\ r.enabled /\ ~r.is_invalid /\ ~r.is_null

\* C11: when the integer normalizer yields n on a record's raw max_pets, n <= 10 is
\* written under max_pets_allowed and nothing is written under max_weight_lbs for that
\* record; n > 10 is written under max_weight_lbs and nothing under max_pets_allowed.
C11_CountOrWeight ==
    (Handled /\ SampleInt(LastRecord.max_pets) # None) =>
      IF Val(SampleInt(LastRecord.max_pets)) <= 10
      THEN /\ Writes("max_pets_allowed") # {}
           /\ Writes("max_weight_lbs") = {}
           /\ HasInt(Val(LastRecord.hotel_id), "max_pets_allowed",
                     Val(SampleInt(LastRecord.max_pets)))
      ELSE /\ Writes("max_weight_lbs") # {}
           /\ Writes("max_pets_allowed") = {}
           /\ HasInt(Val(LastRecord.hotel_id), "max_weight_lbs",
                     Val(SampleInt(LastRecord.max_pets)))

\* a record with "15 lbs max" was handled for a hotel that has a max_pets_allowed row
\* from another record
C11_Witness ==
    /\ Handled
    /\ LastRecord.max_pets = RawStr("15 lbs max")
    /\ Writes("max_weight_lbs") # {}
    /\ ScraperRows(store, Val(LastRecord.hotel_id), "max_pets_allowed") # {}

\* the raw columns of a scraped record
RawColumns(rec) == DOMAIN rec \ {"web_slug", "hotel_id"}

\* the raw column holds nothing: NULL or text of spaces only
Absent(raw) ==
    \/ raw.t = "none"
    \/ raw.t = "str" /\ \A i \in 1..Len(raw.s) : IsSpace(SubSeq(raw.s, i, i))

\* every raw column of the record is absent
AllAbsent(rec) == \A f \in RawColumns(rec) : Absent(rec[f])

\* C12: handling a record whose raw columns are all absent (NULL or blank) leaves the
\* store unchanged and keeps every statistic counter, llm_calls included.
C12_AbsentRecordChangesNothing ==
    [][(pc = "running" /\ idx' = idx + 1 /\ AllAbsent(scraped[rows[idx]]))
         => (store' = store /\ stats' = stats)]_vars

\* a record of blank texts only was handled over a store that holds rows
C12_Witness ==
    /\ Handled
    /\ AllAbsent(LastRecord)
    /\ \E f \in RawColumns(LastRecord) : LastRecord[f].t = "str"
    /\ store # {}
    /\ store = before
    /\ \A i \in 1..Len(log) : log[i].path = "no-data"

\* the row is outside the scope of a call for the hotel and the attribute
OutOfScope(r, hotel_id, attr_name) ==
    \/ r.generated_by # "web-scraper"
    \/ r.hotel_id # hotel_id
    \/ r.attribute_type_id # attr_name
    \/ ~r.enabled

\* C13: a call of upsert_attr for a hotel and an attribute changes no row of another
\* source, another hotel, another attribute, or with enabled = false; the rows other
\* sources hold for the same hotel and attribute are the same before and after.
C13_OutOfScopeRowsKept ==
    (pc = "upsert" /\ log # <<>>) =>
      \A r \in before : OutOfScope(r, log[1].hotel_id, log[1].attr) => r \in store

\* a call updated a row while another source's row and a disabled row of the importer
\* for the same hotel and attribute were in the store
C13_Witness ==
    /\ pc = "upsert" /\ log # <<>>
    /\ log[1].result = "updated"
    /\ store # before
    /\ \E r \in before : /\ r.hotel_id = log[1].hotel_id /\ r.attribute_type_id = log[1].attr
                         /\ r.generated_by # "web-scraper" /\ r.enabled /\ r \in store
    /\ \E r \in before : /\ r.hotel_id = log[1].hotel_id /\ r.attribute_type_id = log[1].attr
                         /\ r.generated_by = "web-scraper" /\ ~r.enabled /\ r \in store

\* the rows a call of upsert_attr updated, as they are after the call
UpdatedRows ==
    IF log # <<>> /\ log[1].result = "updated"
    THEN { r \in store : \E b \in before : b.id = r.id /\ b.enabled
                                           /\ ~OutOfScope(b, log[1].hotel_id, log[1].attr) }
    ELSE {}

\* the four typed columns of the row hold what the call supplied
TypedAsSupplied(r, a) ==
    /\ r.value_bool = a.value_bool
    /\ r.value_int = a.value_int
    /\ r.value_num = a.value_num
    /\ r.value_arr = a.value_arr

\* the text the value column is to hold after a call for the attribute
TextOf(attr_name, a) ==
    CASE attr_name = "is_pet_friendly" /\ a.value_bool = Some(TRUE) -> Some("True")
      [] attr_name = "is_pet_friendly" /\ a.value_bool = Some(FALSE) -> Some("False")
      [] attr_name \in {"max_pets_allowed", "minimum_pet_age"} /\ a.value_int = Some(3)
           -> Some("3")
      [] OTHER -> a.value

\* C14 as stated: after upsert_attr updates a row, value, value_bool, value_int, value_num
\* and value_arr each hold exactly what the call supplied, null where it supplied nothing.
C14_ColumnsAsSupplied ==
    (pc = "upsert") =>
      \A r \in UpdatedRows :
        TypedAsSupplied(r, Val(log[1].call)) /\ r.value = Val(log[1].call).value

\* C14 amended: after upsert_attr updates a row, value_bool, value_int, value_num and
\* value_arr each hold exactly what the call supplied, null where it supplied nothing,
\* and value holds the text of the typed value this call supplied for the attribute's
\* kind (else the supplied value); no column keeps content from before the call.
C14_TypedColumnsAsSupplied ==
    (pc = "upsert") =>
      \A r \in UpdatedRows :
        /\ TypedAsSupplied(r, Val(log[1].call))
        /\ r.value = TextOf(log[1].attr, Val(log[1].call))

\* a call that supplied no value_bool updated a row that held one
C14_Witness ==
    /\ pc = "upsert"
    /\ \E r \in UpdatedRows : \E b \in before :
         /\ b.id = r.id
         /\ b.value_bool # None /\ Val(log[1].call).value_bool = None
         /\ b.value # None /\ r.value = None
         /\ r.value_int # None

\* the columns a call of upsert_attr supplies content for
Supplied(a) ==
    { col \in {"value", "value_bool", "value_int", "value_num", "value_arr"} : a[col] # None }

\* the column a value of the attribute goes to
ColumnOf(attr_name) ==
    CASE ATTR_DATA_TYPES(attr_name) = "bool" -> "value_bool"
      [] ATTR_DATA_TYPES(attr_name) = "int" -> "value_int"
      [] ATTR_DATA_TYPES(attr_name) = "float" -> "value_num"
      [] ATTR_DATA_TYPES(attr_name) = "list[str]" -> "value_arr"
      [] OTHER -> "value"

\* the events of the log in which upsert_attr was called
Calls == { i \in 1..Len(log) : log[i].call # None }

\* C15 as stated: every upsert_attr call the resolution policy issues sets exactly one
\* of value_bool, value_int, value_num, value_arr and (string kind) value, and leaves
\* the others null.
C15_ExactlyOneColumn ==
    (pc # "upsert") =>
      \A i \in Calls : Cardinality(Supplied(Val(log[i].call))) = 1

\* C15 amended: a call that persists a value sets exactly the column of the attribute's
\* kind and leaves the others null; a call that marks the attribute invalid or null
\* (is_invalid or is_null) sets no column at all.
C15_OneColumnOrNone ==
    (pc # "upsert") =>
      \A i \in Calls :
        IF Val(log[i].call).is_invalid \/ Val(log[i].call).is_null
        THEN Supplied(Val(log[i].call)) = {}
        ELSE Supplied(Val(log[i].call)) = {ColumnOf(log[i].attr)}

\* a record was handled with a call that persists a text value the LLM gave
C15_Witness ==
    /\ Handled
    /\ \E i \in Calls : log[i].path = "llm-value" /\ Supplied(Val(log[i].call)) = {"value"}

\* the hotel has an enabled web-scraper row of the attribute with the boolean b
HasBool(hotel_id, attr_name, b) ==
    \E r \in ScraperRows(store, hotel_id, attr_name) :
      r.value_bool = Some(b) /\ r.enabled /\ ~r.is_invalid

\* the rows the record at a position of FailRecords brings are in the store
Kept(pos) ==
    CASE pos = 1 -> HasBool("h1", "is_pet_friendly", TRUE) /\ HasInt("h1", "max_pets_allowed", 2)
      [] pos = 2 -> /\ HasBool("h2", "is_pet_friendly", TRUE)
                    /\ \E r \in ScraperRows(store, "h2", "pet_fee_amount") :
                         r.value_num = Some(5000) /\ r.enabled
      [] OTHER -> HasBool("h1", "has_pet_deposit", FALSE) /\ HasInt("h1", "max_weight_lbs", 15)

\* C16: the store is committed after each record: when handling the k-th record fails,
\* the rows written for records 1..k-1 are in the store and no write made for the k-th
\* record is.
C16_FailureLosesOneSubject ==
    (pc = "failed") =>
      /\ store = before
      /\ \A i \in 1..(idx - 1) : Kept(rows[i])

\* the first run failed on the second or third record after a write for that record,
\* and the rows of the records before it are in the store
C16_Witness ==
    /\ pc = "failed"
    /\ runs = 1
    /\ idx > 1
    /\ \E i \in 1..Len(log) : Wrote(log[i])
    /\ store # store0
    /\ ~Kept(rows[idx])

\* C17: when a write fails for a record, the batch goes on with the next record: the
\* batch never ends with a record after the failing one left unhandled.
C17_LaterSubjectsHandled ==
    (pc \in {"done", "failed"}) => idx >= Len(rows)

\* the text is digits only, with an optional sign before them
IsBareInt(s) ==
    LET d == IF Len(s) > 0 /\ Chr(s, 1) = "-" THEN SubSeq(s, 2, Len(s)) ELSE s
    IN Len(d) > 0 /\ \A i \in 1..Len(d) : IsDigit(Chr(d, i))

\* the text is a decimal number: an optional sign, digits, at most one point
IsBareNumber(s) ==
    LET d == IF Len(s) > 0 /\ Chr(s, 1) = "-" THEN SubSeq(s, 2, Len(s)) ELSE s
    IN /\ \E i \in 1..Len(d) : IsDigit(Chr(d, i))
       /\ \A i \in 1..Len(d) : IsDigit(Chr(d, i)) \/ Chr(d, i) = "."
       /\ Cardinality({ i \in 1..Len(d) : Chr(d, i) = "." }) <= 1

\* the trimmed reply of the event is exactly a literal of the kind llm_extract returned
ExactReply(e) ==
    CASE e.llm_val.k = "bool" -> Lower(Strip(e.ans.text)) \in {"true", "false"}
      [] e.llm_val.k = "int" -> IsBareInt(Strip(e.ans.text))
      [] e.llm_val.k = "float" -> IsBareNumber(Strip(e.ans.text))
      [] e.llm_val.k = "NULL" -> Upper(Strip(e.ans.text)) = "NULL"
      [] OTHER -> TRUE

\* C18: for bool, int and float attributes llm_extract returns a value only when the
\* trimmed reply is exactly a boolean word, exactly a bare number or exactly NULL; a
\* number embedded in other words yields (None, invalid).
C18_OnlyExactReplies ==
    (pc # "upsert") =>
      \A i \in 1..Len(log) : (log[i].contacted /\ ~log[i].llm_invalid) => ExactReply(log[i])

\* the text is three lowercase letters
IsCurrencyCode(s) ==
    Len(s) = 3 /\ \A i \in 1..3 : \E j \in 1..Len(LowerAlpha) : Chr(s, i) = Chr(LowerAlpha, j)

\* C19: every pet_fee_currency value persisted on the LLM's answer is exactly three
\* lowercase letters; a reply that is not three letters is written as invalid.
C19_LlmCurrencyIsThreeLetters ==
    (pc # "upsert") =>
      \A i \in 1..Len(log) :
        (log[i].attr = "pet_fee_currency" /\ log[i].contacted /\ Wrote(log[i])) =>
          IF IsCurrencyCode(Lower(Strip(log[i].ans.text))) /\ log[i].ans.fails < 3
          THEN Val(log[i].call).value = Some(Lower(Strip(log[i].ans.text)))
          ELSE Val(log[i].call).is_invalid

\* the seconds slept in a call of call_gemini
RECURSIVE SumOf(_)
SumOf(q) == IF q = <<>> THEN 0 ELSE Head(q) + SumOf(Tail(q))

\* a call of call_gemini has returned
Returned == gemini.pc = "returned"

\* what holds of a call of call_gemini at every step and at its return
GeminiBounded ==
    /\ gemini.calls <= 3
    /\ Len(gemini.sleeps) <= 2
    /\ \A i \in 1..Len(gemini.sleeps) : gemini.sleeps[i] = 2 ^ (i - 1)
    /\ Len(gemini.sleeps) <= gemini.calls
    /\ Returned =>
         /\ Len(gemini.sleeps) = gemini.calls - 1
         /\ IF gemini.ans.fails < 3
            THEN gemini.calls = gemini.ans.fails + 1 /\ gemini.result # None
            ELSE gemini.calls = 3 /\ gemini.result = None
         /\ gemini.result = call_gemini(gemini.ans).text
         /\ gemini.calls = call_gemini(gemini.ans).attempts
         /\ SumOf(gemini.sleeps) = call_gemini(gemini.ans).slept
         /\ gemini.result = None =>
              \A dt \in DataTypes :
                llm_extract("pet_fee_currency", dt, gemini.ans, ALLOWED_SPECIES_TAGS).invalid

\* C20: one call of the LLM makes at most 3 attempts, stops at the first that succeeds,
\* sleeps 1 s then 2 s between failed attempts only, returns None after 3 failures, which
\* llm_extract turns into invalid; and the call always returns.
C20_BoundedRetry == [](pc = "gemini" => GeminiBounded) /\ <>(pc = "gemini" => Returned)

\* a call returned the reply of its third attempt after sleeping 1 s and 2 s
C20_Witness ==
    /\ pc = "gemini"
    /\ Returned
    /\ gemini.calls = 3
    /\ gemini.sleeps = <<1, 2>>
    /\ gemini.result # None

\* C21: a tri-state field whose status is explicit_none or not_mentioned never carries
\* a value: the object is rejected or its value is null.
C21_NoValueUnlessPresent ==
    (pc = "extract" /\ extraction.pc = "returned" /\ extraction.result # None) =>
      \A f \in DOMAIN FieldTypes :
        Val(extraction.result)[f].status # "present" =>
          Val(extraction.result)[f].value = RawNone

\* the attribute of the last single call has no identity in ATTR_MAP
Unresolved == log # <<>> /\ log[1].attr \notin attr_map

\* C22: upsert_attr for an attribute name without an identity in ATTR_MAP returns
\* 'skipped', updates and inserts nothing, and none of the counters updated, inserted
\* and invalid moves; further calls follow.
C22_UnknownAttributeSkipped ==
    [][(pc = "upsert" /\ log' # <<>> /\ log'[1].attr \notin attr_map /\ runs' = runs + 1) =>
         /\ log'[1].call # None => log'[1].result = "skipped"
         /\ store' = store
         /\ stats'.updated = stats.updated
         /\ stats'.inserted = stats.inserted
         /\ stats'.invalid = stats.invalid
         /\ pc' = "upsert"]_vars

\* process_attr asked the LLM about an attribute without identity, its upsert_attr call
\* was skipped, over a store an earlier call had written to
C22_Witness ==
    /\ pc = "upsert"
    /\ Unresolved
    /\ log[1].result = "skipped"
    /\ log[1].invoked
    /\ stats.llm_calls > 0
    /\ store = before
    /\ store # store0

\* the attributes the loop hands to normalize_bool
BoolAttrs == {"is_pet_friendly", "has_pet_deposit", "is_deposit_refundable", "has_pet_amenities"}

\* the text of a raw value, trimmed and in lower case; "" for NULL
FoldedText(raw) ==
    CASE raw.t = "none" -> ""
      [] raw.t = "bool" -> IF raw.b THEN "true" ELSE "false"
      [] raw.t = "int" -> Lower(Strip(IntToStr(raw.n)))
      [] OTHER -> Lower(Strip(raw.s))

\* C23: normalize_bool returns true when the trimmed text in lower case is one of true,
\* yes, 1, t, y, false when it is one of false, no, 0, f, n, None otherwise; and
\* normalizing the string form of a result gives the result again.
C23_BoolSets ==
    (pc # "upsert") =>
      \A i \in 1..Len(log) :
        log[i].attr \in BoolAttrs =>
          /\ log[i].norm =
               (IF FoldedText(log[i].raw) \in {"true", "yes", "1", "t", "y"} THEN Some(TRUE)
                ELSE IF FoldedText(log[i].raw) \in {"false", "no", "0", "f", "n"}
                THEN Some(FALSE)
                ELSE None)
          /\ log[i].norm # None =>
               normalize_bool(RawStr(BoolToStr(Val(log[i].norm)))) = log[i].norm

\* a record whose text "\tY\n" was normalized to true has been handled
C23_Witness ==
    /\ Handled
    /\ \E i \in 1..Len(log) : /\ log[i].raw = RawStr("\tY\n")
                              /\ log[i].norm = Some(TRUE)
                              /\ log[i].path = "normalizer"

\* the scraped record without its link
Unlink(rec) == [rec EXCEPT !.hotel_id = None]

\* C24: the engine removes no row: in every step the identities of the store's rows
\* only grow, and every scraped record stays, whether it keeps its link or loses it.
C24_NothingRemoved ==
    [][/\ Ids(store) \subseteq Ids(store')
       /\ Len(scraped') = Len(scraped)
       /\ \A i \in 1..Len(scraped) : Unlink(scraped'[i]) = Unlink(scraped[i])]_vars

\* a batch has ended in which a record lost the link an earlier run had left and rows
\* were added to a store that held rows
C24_Witness ==
    /\ pc = "done"
    /\ \E i \in 1..Len(scraped) : /\ scraped[i].web_slug = Some("motel-nowhere")
                                  /\ scraped[i].hotel_id = None
    /\ store0 # {}
    /\ Ids(store0) \subseteq Ids(store)
    /\ Ids(store) # Ids(store0)

\* the hotels whose slug is the record's web_slug
Canonical(rec) == { hm.id : hm \in { x \in Masterfile : rec.web_slug = Some(x.slug) } }

\* the record is linked exactly when its slug is a hotel's, and then to that hotel
LinkedBySlug(rec) ==
    IF Canonical(rec) = {} THEN rec.hotel_id = None
    ELSE rec.hotel_id # None /\ Val(rec.hotel_id) \in Canonical(rec)

\* the fetched positions are the linked records, each once
FetchedAreLinked ==
    /\ \A k \in 1..Len(rows) : rows[k] \in 1..Len(scraped) /\ scraped[rows[k]].hotel_id # None
    /\ \A k, l \in 1..Len(rows) : rows[k] = rows[l] => k = l
    /\ \A i \in 1..Len(scraped) : scraped[i].hotel_id # None => \E k \in 1..Len(rows) : rows[k] = i

\* C25: the linking step runs once per batch, before any upsert: after it a scraped
\* record has a hotel id exactly when its web_slug is a hotel's slug, links of earlier
\* runs being cleared; only linked records are handled; unlinked records stay in the
\* table; the links change and the store is written in no other order.
C25_LinkThenResolve ==
    /\ [](pc \in {"remapped", "running", "done"} =>
            \A i \in 1..Len(scraped) : LinkedBySlug(scraped[i]))
    /\ [](pc \in {"running", "done"} => FetchedAreLinked)
    /\ [][/\ scraped' # scraped => (pc \in {"idle", "done"} /\ pc' = "remapped" /\ store' = store)
          /\ store' # store => (pc = "running" /\ scraped' = scraped)
          /\ (pc' = "running" /\ pc # "running") => pc = "remapped"
          /\ Len(scraped') = Len(scraped)]_vars

\* a batch has ended that cleared a link of an earlier run, handled the linked record
\* only and wrote its rows
C25_Witness ==
    /\ pc = "done"
    /\ \E i \in 1..Len(scraped) : /\ scraped[i].web_slug = Some("motel-nowhere")
                                  /\ scraped[i].hotel_id = None
    /\ Len(rows) = 1
    /\ scraped[rows[1]].hotel_id = Some("h1")
    /\ store # store0

\* the record has a pet_amenities text that names no pet amenity, and nothing else
OnlyGeneralAmenities(rec) ==
    /\ rec.pet_amenities = RawStr("WiFi, parking")
    /\ \A f \in RawColumns(rec) \ {"pet_amenities"} : rec[f] = RawNone

\* C26: for pet_amenities_list the LLM is never called and no invalid row is written;
\* a non-empty raw value in which the normalizer finds no pet amenity ends without a
\* trace: the store and every counter stay as they were.
C26_AmenitiesNeverAsked ==
    /\ [](pc # "upsert" =>
            \A i \in 1..Len(log) :
              log[i].attr = "pet_amenities_list" =>
                /\ ~log[i].invoked /\ ~log[i].contacted
                /\ log[i].call # None => ~Val(log[i].call).is_invalid)
    /\ [][(pc = "running" /\ idx' = idx + 1 /\ OnlyGeneralAmenities(scraped[rows[idx]])) =>
            /\ store' = store
            /\ stats' = stats
            /\ \A i \in 1..Len(log') : log'[i].attr # "pet_amenities_list"]_vars

\* a record with the amenities text "WiFi, parking" alone has been handled
C26_Witness ==
    /\ Handled
    /\ OnlyGeneralAmenities(LastRecord)
    /\ store = before
    /\ stats.llm_calls = 0

\* the rows of a store without their identities
Content(st) == { [f \in DOMAIN r \ {"id"} |-> r[f]] : r \in st }

\* the answers the LLM gave for the record the log is about
LogAnswers ==
    [a \in AnswerAttrs |->
       IF \E i \in 1..Len(log) : log[i].attr = a /\ log[i].contacted
       THEN log[CHOOSE i \in 1..Len(log) : log[i].attr = a /\ log[i].contacted].ans
       ELSE NoAnswer]

\* the store the loop's own order of blocks leaves for the last record and its answers
InCodeOrder ==
    RunPlans(Plans(LastRecord), 1, [store |-> before, stats |-> ZeroStats, log |-> <<>>],
             attr_map, Val(LastRecord.hotel_id), LogAnswers).store

\* the attributes the log has a call of upsert_attr for
CalledAttrs == { log[i].attr : i \in Calls }

\* C27: within one record the rows persisted do not depend on the order of the
\* attribute blocks: whatever the order, with the same raw record and the same LLM
\* answers the store holds the same rows (identities aside) as in the loop's order,
\* each attribute being upserted at most once.
C27_OrderDoesNotMatter ==
    (Handled /\ pc # "remapped") =>
      /\ Content(store) = Content(InCodeOrder)
      /\ Cardinality(store) = Cardinality(InCodeOrder)
      /\ Cardinality(CalledAttrs) = Cardinality(Calls)

\* a record was handled with its three blocks in an order other than the loop's: the
\* fee before the boolean, both written as new rows
C27_Witness ==
    /\ Handled
    /\ Cardinality(Calls) = 3
    /\ \E i, j \in Calls : /\ i < j
                           /\ log[i].attr = "pet_fee_amount" /\ log[i].result = "inserted"
                           /\ log[j].attr = "is_pet_friendly" /\ log[j].result = "inserted"

\* the integer a sample reply to the max_pets prompt stands for, None where it is none
ReplyInteger(text) ==
    CASE text = "3" -> Some(3)
      [] text = "25" -> Some(25)
      [] text = "about 12 pets" -> Some(12)
      [] OTHER -> None

FreeTextColumn == [pet_fee_variations |-> "pet_fee_variations", general_pet_rules |-> "pet_policy"]

\* sample texts that are not blank and from which the splitters derive no item
NoItemTexts == {RawStr(" ; "), RawStr("ok")}

\* the record has one free-text column with a text without items, and nothing else
OnlyNoItemText(rec) ==
    \E a \in DOMAIN FreeTextColumn :
      /\ rec[FreeTextColumn[a]] \in NoItemTexts
      /\ \A f \in RawColumns(rec) \ {FreeTextColumn[a]} : rec[f] = RawNone

\* C29: for pet_fee_variations and general_pet_rules a non-blank raw value from which
\* the splitter derives no item ends as an is_invalid row: llm_extract returns
\* (None, invalid) without contacting the LLM, and llm_calls is incremented by one.
C29_FreeTextWithoutItems ==
    /\ [](pc # "upsert" =>
            \A i \in 1..Len(log) :
              (log[i].attr \in DOMAIN FreeTextColumn /\ log[i].raw \in NoItemTexts) =>
                /\ log[i].norm = None
                /\ log[i].invoked /\ ~log[i].contacted /\ log[i].llm_invalid
                /\ log[i].call = Some([DefaultArgs EXCEPT !.is_invalid = TRUE])
                /\ Wrote(log[i])
                /\ pc # "remapped" =>
                     \E r \in ScraperRows(store, log[i].hotel_id, log[i].attr) : InvalidRow(r))
    /\ [][(pc = "running" /\ idx' = idx + 1 /\ OnlyNoItemText(scraped[rows[idx]])) =>
            /\ stats'.llm_calls = stats.llm_calls + 1
            /\ stats'.invalid = stats.invalid + 1
            /\ \E i \in 1..Len(log') : log'[i].attr \in DOMAIN FreeTextColumn /\ log'[i].invoked]_vars

\* a record whose pet_policy is "ok" has been handled: an invalid row, one llm_call
C29_Witness ==
    /\ Handled /\ pc # "remapped"
    /\ LastRecord.pet_policy = RawStr("ok")
    /\ stats.llm_calls = 1
    /\ \E r \in ScraperRows(store, "h1", "general_pet_rules") : InvalidRow(r)
    /\ \E i \in 1..Len(log) : log[i].attr = "general_pet_rules" /\ ~log[i].contacted

\* the null and invalid markers exclude each other, and either one excludes every value
MarkersExclusive(r) ==
    /\ ~(r.is_null /\ r.is_invalid)
    /\ (r.is_null \/ r.is_invalid) => NoValue(r)

\* the rows the engine has written since the initial state
WrittenRows == store \ store0

\* C30: no row written by the engine has is_null and is_invalid both true, and every row
\* written with is_null or is_invalid true has value, value_bool, value_int, value_num
\* and value_arr all null, whatever the resolution outcomes, the fee cap included.
C30_MarkersExcludeValues ==
    /\ \A r \in WrittenRows : MarkersExclusive(r)
    /\ \A i \in 1..Len(log) : log[i].call # None => MarkersExclusive(Val(log[i].call))

\* a fee over the cap has been written as an invalid row without any value
C30_Witness ==
    /\ \E i \in 1..Len(log) :
         /\ log[i].path = "fee-cap" /\ Wrote(log[i])
         /\ log[i].norm # None /\ Val(log[i].norm) > FeeCap * 100
    /\ \E r \in WrittenRows :
         r.attribute_type_id = "pet_fee_amount" /\ r.is_invalid /\ ~r.is_null /\ NoValue(r)

====
